---- MODULE Spec2Model ----
(***************************************************************************)
(* Model of the wgpu-playground renderer core:                             *)
(*   - the command pipeline of RenderCore::run (src/renderer/core.rs),     *)
(*   - the growable stores of src/renderer/component.rs                    *)
(*     (ComponentStore, HostComponentStore, RelationStore).                *)
(* Indices are 0-based as in the source; sequences are 1-based, so slot i  *)
(* of a Vec lives at position i + 1 of the sequence that models it.        *)
(***************************************************************************)
EXTENDS Integers, Sequences, FiniteSets, TLC

(* ------------------------------ bounds --------------------------------- *)

\* number of commands the control side sends in one run
MaxCmds == 3
\* number of commands sent in a run checked for liveness
MaxFairCmds == 2
\* number of distinct entity keys (Uuid) used against a store
MaxKeys == 3
\* largest capacity handed to a store constructor
MaxInitCapacity == 2
\* largest index handed to RelationStore::link
MaxIndex == 2
\* number of entities whose transforms are linked, removed and added again
MaxLinkedKeys == 2
\* number of entities (Uuid) spawned into the scene
MaxEntities == 2
\* capacity SceneGraph::new gives to its stores
MaxSceneCapacity == 1
\* capacity SceneGraph::new gives to the instance pool
MaxPoolCapacity == 3
\* number of calls made on the scene in one run
MaxSceneOps == 5
\* number of commands after which the control side makes no further call
MaxControlCmds == 3
\* number of tasks handed to WorkerPool::submit
MaxTasks == 3
\* largest hardware_concurrency a WorkerPool is built with
MaxWorkers == 2

\* surface configurations: InitialConfig is the one the context is built
\* with, Configs are the ones a Resize can carry
InitialConfig == "c0"
Configs == {"c1", "c2"}
Keys == 1..MaxKeys
Values == {"v1", "v2"}
Indices == 0..MaxIndex

\* Option<T>: None is the empty sequence, Some(x) a one-element sequence
None == <<>>
Some(x) == <<x>>

(* ------------------------------ state ---------------------------------- *)

VARIABLES
    \* command channel (control -> render) and its sender side
    render_rx, senders_alive, sent,
    \* event channel (render -> control)
    result_tx,
    \* RenderCore
    is_running, inbox, ready, pc, config, pending_resize, camera,
    \* observation of the run: commands dequeued / applied, frames rendered
    received, applied, cycle_recv, cycle_applied, cycle_queued, frames,
    last_resize, recv_disconnected,
    \* stores of component.rs
    transforms, nodes, node_transform_index,
    \* observation of the stores: the handle and the value of the last add
    \* or set of each key, the store before the growth of the last add, the
    \* last link of each index and the mapping before the last link
    handle_of, host_handle_of, grown_from, linked, last_link,
    \* SceneGraph; built says that the batches were built from the stores
    \* as they are; last_draw and last_build observe the last frame and the
    \* last build_render_batches, scene_ops counts the calls made on the scene
    scene, built, last_draw, last_build, scene_ops,
    \* the control side: which one it is, its fields, the render thread,
    \* the number of events taken from the event channel, the last
    \* request_frame, whether an unwrap-checked send returned Err; and a
    \* trial of run_once against a cycle of run
    control, backend, thread, polled, last_tick, send_failed, trial,
    \* WorkerPool, its web workers and what was observed of them
    worker_pool, web_workers, completed, last_assign, submitted

loop_vars == <<render_rx, senders_alive, sent, result_tx, is_running, inbox,
               ready, pc, config, pending_resize, camera, received, applied,
               cycle_recv, cycle_applied, cycle_queued, frames, last_resize,
               recv_disconnected>>

store_vars == <<transforms, nodes, node_transform_index, handle_of,
                host_handle_of, grown_from, linked, last_link>>

scene_vars == <<scene, built, last_draw, last_build, scene_ops>>

control_vars == <<control, backend, thread, polled, last_tick, send_failed,
                  trial>>

pool_vars == <<worker_pool, web_workers, completed, last_assign, submitted>>

vars == <<render_rx, senders_alive, sent, result_tx, is_running, inbox,
          ready, pc, config, pending_resize, camera, received, applied,
          cycle_recv, cycle_applied, cycle_queued, frames, last_resize,
          recv_disconnected, transforms, nodes, node_transform_index,
          handle_of, host_handle_of, grown_from, linked, last_link,
          scene, built, last_draw, last_build, scene_ops,
          control, backend, thread, polled, last_tick, send_failed, trial,
          worker_pool, web_workers, completed, last_assign, submitted>>

(* --------------------------- sequence helpers -------------------------- *)

Last(s) == s[Len(s)]

SelectKind(s, k) == SelectSeq(s, LAMBDA c : c.kind = k)

(* ------------------- device buffers (wgpu::Buffer) --------------------- *)

\* content of a cell of a component buffer that no write has reached
Zeroed == "zeroed"

\* create_buffer::<T>(capacity, context): a new buffer object of capacity
\* cells, each holding zero; serial tells buffer objects apart
CreateBuffer(capacity, serial, zero) ==
    [serial |-> serial, data |-> [i \in 1..capacity |-> zero], fault |-> FALSE]

\* queue.write_buffer(buffer, offset, data): a write that does not fit in the
\* buffer is a validation error and writes nothing
WriteBuffer(buffer, offset, data) ==
    IF offset + Len(data) > Len(buffer.data)
    THEN [buffer EXCEPT !.fault = TRUE]
    ELSE [buffer EXCEPT !.data =
             [i \in 1..Len(buffer.data) |->
                 IF i > offset /\ i <= offset + Len(data)
                 THEN data[i - offset] ELSE buffer.data[i]]]

Max(a, b) == IF a >= b THEN a ELSE b

\* HashMap::insert on a map modelled as a function
MapInsert(map, key, value) ==
    [k \in DOMAIN map \cup {key} |-> IF k = key THEN value ELSE map[k]]

\* HashMap::remove
MapRemove(map, key) == [k \in DOMAIN map \ {key} |-> map[k]]

EmptyMap == [k \in {} |-> 0]

\* Vec::pop gives the last element
Pop(free) == [value |-> Last(free), rest |-> SubSeq(free, 1, Len(free) - 1)]

(* ------------------------- ComponentStore<T> --------------------------- *)

StoreNew(capacity) ==
    [components |-> <<>>, capacity |-> Max(capacity, 1), index_map |-> EmptyMap,
     free_indices |-> <<>>, is_dirty |-> FALSE,
     buffer |-> CreateBuffer(capacity, 0, Zeroed)]

\* ComponentStore::write(index): one record to its place in the buffer
StoreWrite(store, index) ==
    [store EXCEPT !.buffer =
        WriteBuffer(@, index, <<store.components[index + 1]>>)]

\* ComponentStore::sync: the whole dense array to the start of the buffer
StoreSyncNothing(store) == store

StoreSync(store) ==
    [store EXCEPT !.buffer = WriteBuffer(@, 0, store.components)]

\* ComponentStore::grow
StoreGrowByOne(store) ==
    LET grown == [store EXCEPT
                     !.capacity = @ + 1,
                     !.buffer = CreateBuffer(store.capacity + 1,
                                             store.buffer.serial + 1, Zeroed)]
    IN  [StoreSync(grown) EXCEPT !.is_dirty = TRUE]

StoreGrow(store) ==
    LET grown == [store EXCEPT
                     !.capacity = 2 * @,
                     !.buffer = CreateBuffer(2 * store.capacity,
                                             store.buffer.serial + 1, Zeroed)]
    IN  [StoreSync(grown) EXCEPT !.is_dirty = TRUE]

\* ComponentStore::add: the store afterwards and the ComponentId returned
StoreAddLeavesFree(store, key, component) ==
    IF key \in DOMAIN store.index_map
    THEN LET index == store.index_map[key]
             put == [store EXCEPT !.components[index + 1] = component]
         IN  [store |-> StoreWrite(put, index), id |-> index]
    ELSE IF store.free_indices # <<>>
    THEN LET free == Pop(store.free_indices)
             put == [store EXCEPT !.components[free.value + 1] = component,
                                  !.index_map = MapInsert(@, key, free.value)]
         IN  [store |-> StoreWrite(put, free.value), id |-> free.value]
    ELSE LET index == Len(store.components)
             room == IF Len(store.components) >= store.capacity
                     THEN StoreGrow(store) ELSE store
             pushed == [room EXCEPT !.components = Append(@, component),
                                    !.index_map = MapInsert(@, key, index)]
         IN  [store |-> StoreWrite(pushed, index), id |-> index]

StoreAdd(store, key, component) ==
    IF key \in DOMAIN store.index_map
    THEN LET index == store.index_map[key]
             put == [store EXCEPT !.components[index + 1] = component]
         IN  [store |-> StoreWrite(put, index), id |-> index]
    ELSE IF store.free_indices # <<>>
    THEN LET free == Pop(store.free_indices)
             put == [store EXCEPT !.components[free.value + 1] = component,
                                  !.free_indices = free.rest,
                                  !.index_map = MapInsert(@, key, free.value)]
         IN  [store |-> StoreWrite(put, free.value), id |-> free.value]
    ELSE LET index == Len(store.components)
             room == IF Len(store.components) >= store.capacity
                     THEN StoreGrow(store) ELSE store
             pushed == [room EXCEPT !.components = Append(@, component),
                                    !.index_map = MapInsert(@, key, index)]
         IN  [store |-> StoreWrite(pushed, index), id |-> index]

\* ComponentStore::remove
StoreRemoveKeepsKey(store, key) ==
    IF key \in DOMAIN store.index_map
    THEN [store EXCEPT !.free_indices = Append(@, store.index_map[key])]
    ELSE store

StoreRemove(store, key) ==
    IF key \in DOMAIN store.index_map
    THEN [store EXCEPT !.index_map = MapRemove(@, key),
                       !.free_indices = Append(@, store.index_map[key])]
    ELSE store

\* ComponentStore::set
StoreSet(store, key, component) ==
    IF key \in DOMAIN store.index_map
    THEN LET index == store.index_map[key]
         IN  StoreWrite([store EXCEPT !.components[index + 1] = component],
                        index)
    ELSE store

\* ComponentStore::get_by_id / HostComponentStore::get_by_id
GetById(store, id) ==
    IF id < Len(store.components) THEN Some(store.components[id + 1]) ELSE None

\* ComponentStore::get_index / HostComponentStore::get_index
GetIndex(store, key) ==
    IF key \in DOMAIN store.index_map THEN Some(store.index_map[key]) ELSE None

(* ----------------------- HostComponentStore<T> ------------------------- *)

HostNew == [components |-> <<>>, index_map |-> EmptyMap, free_indices |-> <<>>]

\* HostComponentStore::add: the store afterwards and the ComponentId returned
HostAdd(host, key, component) ==
    IF key \in DOMAIN host.index_map
    THEN LET index == host.index_map[key]
         IN  [store |-> [host EXCEPT !.components[index + 1] = component],
              id |-> index]
    ELSE IF host.free_indices # <<>>
    THEN LET free == Pop(host.free_indices)
         IN  [store |-> [host EXCEPT
                            !.components[free.value + 1] = component,
                            !.free_indices = free.rest,
                            !.index_map = MapInsert(@, key, free.value)],
              id |-> free.value]
    ELSE LET index == Len(host.components)
         IN  [store |-> [host EXCEPT
                            !.components = Append(@, component),
                            !.index_map = MapInsert(@, key, index)],
              id |-> index]

\* HostComponentStore::remove
HostRemove(host, key) ==
    IF key \in DOMAIN host.index_map
    THEN [host EXCEPT !.index_map = MapRemove(@, key),
                      !.free_indices = Append(@, host.index_map[key])]
    ELSE host

(* -------------------------- RelationStore<A, B> ------------------------ *)

RelNew(capacity) ==
    [mapping |-> <<>>, capacity |-> Max(capacity, 1), is_dirty |-> FALSE,
     buffer |-> CreateBuffer(capacity, 0, 0)]

\* RelationStore::get_mapping
GetMapping(rel, index) ==
    IF index < Len(rel.mapping) THEN Some(rel.mapping[index + 1]) ELSE None

\* Vec::resize(new_len, 0) of a mapping that is shorter than new_len
VecResize(mapping, new_len) ==
    [i \in 1..new_len |-> IF i <= Len(mapping) THEN mapping[i] ELSE 0]

\* RelationStore::write(index)
RelWrite(rel, index) ==
    [rel EXCEPT !.buffer = WriteBuffer(@, index, <<rel.mapping[index + 1]>>)]

\* RelationStore::sync
RelSync(rel) == [rel EXCEPT !.buffer = WriteBuffer(@, 0, rel.mapping)]

\* RelationStore::grow
RelGrow(rel) ==
    LET grown == [rel EXCEPT
                     !.capacity = 2 * @,
                     !.buffer = CreateBuffer(2 * rel.capacity,
                                             rel.buffer.serial + 1, 0)]
    IN  [RelSync(grown) EXCEPT !.is_dirty = TRUE]

\* RelationStore::link(a, b), a and b being the indices of the two handles
LinkTruncates(rel, a, b) ==
    LET set == [rel EXCEPT !.mapping = [VecResize(<<>>, a + 1) EXCEPT ![a + 1] = b]]
        room == IF Len(set.mapping) >= set.capacity THEN RelGrow(set) ELSE set
    IN  RelWrite(room, a)

Link(rel, a, b) ==
    LET sized == IF a >= Len(rel.mapping)
                 THEN [rel EXCEPT !.mapping = VecResize(@, a + 1)] ELSE rel
        set == [sized EXCEPT !.mapping[a + 1] = b]
        room == IF Len(set.mapping) >= set.capacity THEN RelGrow(set) ELSE set
    IN  RelWrite(room, a)

(* ------------------------ InstancePool (instance.rs) ------------------- *)

PoolNew(capacity) ==
    [capacity |-> Max(capacity, 1), cursor |-> 0,
     buffer |-> CreateBuffer(capacity, 0, Zeroed)]

\* InstancePool::upload: the pool afterwards and the offset returned
PoolUpload(pool, instances) ==
    LET start == IF pool.cursor + Len(instances) > pool.capacity
                 THEN 0 ELSE pool.cursor
    IN  [pool |-> [pool EXCEPT !.cursor = start + Len(instances),
                               !.buffer = WriteBuffer(@, start, instances)],
         offset |-> start]

(* ----------------------- SceneGraph (renderer/scene.rs) ---------------- *)

\* the renderables of the scene: RenderId -> Renderable::as_str; DebugId is
\* the unit cube SceneGraph::new registers for the lights
DebugId == "debug_cube"

Renderables == [mesh1 |-> "mesh", cloud1 |-> "pointcloud", debug_cube |-> "mesh"]

\* the RenderIds a SpawnAsset can carry: two that were loaded, and one that
\* no LoadComplete has announced
Handles == {"mesh1", "cloud1", "ghost"}

\* the order of &'static str pipeline ids, and of the RenderIds (Uuid)
PipelineOrder == <<"light", "mesh", "pointcloud">>

RenderIdOrder == <<"cloud1", "debug_cube", "ghost", "mesh1">>

Position(seq, x) == CHOOSE i \in 1..Len(seq) : seq[i] = x

Entities == 1..MaxEntities

\* LightUniform::kind: 0, 1, 2
LightKinds == {"directional", "point"}

\* NormalUniform::new(transform): the inverse transpose of the transform
NormalUniform(transform) == <<"normal", transform>>

\* SceneGraph::create_bind_group over the four buffers sync hands to it:
\* a binding refers to the buffer object it was created with
CreateBindGroup(s) ==
    <<s.transforms.buffer.serial, s.normals.buffer.serial,
      s.lights.buffer.serial, s.lights_transform_index.buffer.serial>>

\* SceneGraph::new
SceneNew(capacity, pool_capacity) ==
    LET stores ==
          [nodes |-> HostNew,
           renderables |-> Renderables,
           transforms |-> StoreNew(capacity),
           normals |-> StoreNew(capacity),
           lights |-> StoreNew(capacity),
           node_transform_index |-> RelNew(capacity),
           node_normal_index |-> RelNew(capacity),
           lights_transform_index |-> RelNew(capacity),
           instance_pool |-> PoolNew(pool_capacity),
           render_batches |-> <<>>,
           bind_group |-> <<>>]
    IN  [stores EXCEPT !.bind_group = CreateBindGroup(stores)]

BatchKey(pipeline_id, render_id) ==
    [pipeline_id |-> pipeline_id, render_id |-> render_id]

Instance(transform_index, normal_index) ==
    [transform_index |-> transform_index, normal_index |-> normal_index]

\* batches.entry(key).or_default().push(instance)
PushReplaces(batches, key, instance) == MapInsert(batches, key, <<instance>>)

Push(batches, key, instance) ==
    MapInsert(batches, key,
              (IF key \in DOMAIN batches THEN batches[key] ELSE <<>>)
                 \o <<instance>>)

\* the loop over self.nodes.iter_with_index(), order being the order in which
\* the HashMap index_map hands out its entries
RECURSIVE CollectNodes(_, _, _)
CollectNodes(s, order, batches) ==
    IF order = <<>> THEN batches
    ELSE LET render_index == s.nodes.index_map[Head(order)]
             render_id == s.nodes.components[render_index + 1]
             transform_index == GetMapping(s.node_transform_index, render_index)
             normal_index == GetMapping(s.node_normal_index, render_index)
         IN  IF /\ transform_index # None
                /\ normal_index # None
                /\ render_id \in DOMAIN s.renderables
             THEN CollectNodes(s, Tail(order),
                     Push(batches,
                          BatchKey(s.renderables[render_id], render_id),
                          Instance(transform_index[1], normal_index[1])))
             ELSE CollectNodes(s, Tail(order), batches)

\* the loop over self.lights.iter_with_index()
RECURSIVE CollectLightsAnyKind(_, _, _)
CollectLightsAnyKind(s, order, batches) ==
    IF order = <<>> THEN batches
    ELSE LET light_index == s.lights.index_map[Head(order)]
             transform_index == GetMapping(s.lights_transform_index, light_index)
         IN  IF /\ transform_index # None
                /\ DebugId \in DOMAIN s.renderables
             THEN CollectLightsAnyKind(s, Tail(order),
                     Push(batches, BatchKey("light", DebugId),
                          Instance(transform_index[1], 0)))
             ELSE CollectLightsAnyKind(s, Tail(order), batches)

\* the loop over self.lights.iter_with_index()
RECURSIVE CollectLights(_, _, _)
CollectLights(s, order, batches) ==
    IF order = <<>> THEN batches
    ELSE LET light_index == s.lights.index_map[Head(order)]
             uniform == s.lights.components[light_index + 1]
             transform_index == GetMapping(s.lights_transform_index, light_index)
         IN  IF /\ uniform = "point"
                /\ transform_index # None
                /\ DebugId \in DOMAIN s.renderables
             THEN CollectLights(s, Tail(order),
                     Push(batches, BatchKey("light", DebugId),
                          Instance(transform_index[1], 0)))
             ELSE CollectLights(s, Tail(order), batches)

\* the loop over the HashMap batches: each batch is uploaded to the pool
RECURSIVE UploadBatches(_, _, _, _)
UploadBatches(pool, batches, order, render_batches) ==
    IF order = <<>> THEN [pool |-> pool, render_batches |-> render_batches]
    ELSE LET key == Head(order)
             up == PoolUpload(pool, batches[key])
         IN  UploadBatches(up.pool, batches, Tail(order),
                Append(render_batches,
                       [key |-> key, instance_offset |-> up.offset,
                        instance_count |-> Len(batches[key])]))

\* the order of (pipeline_id, render_id) tuples
KeyLess(k1, k2) ==
    \/ Position(PipelineOrder, k1.pipeline_id)
          < Position(PipelineOrder, k2.pipeline_id)
    \/ /\ k1.pipeline_id = k2.pipeline_id
       /\ Position(RenderIdOrder, k1.render_id)
             < Position(RenderIdOrder, k2.render_id)

\* Vec::sort_by_key: a stable sort
RECURSIVE SortByKey(_)
SortByKey(batches) ==
    IF batches = <<>> THEN <<>>
    ELSE LET sorted == SortByKey(SubSeq(batches, 1, Len(batches) - 1))
             last == Last(batches)
             below == SelectSeq(sorted, LAMBDA b : ~KeyLess(last.key, b.key))
             above == SelectSeq(sorted, LAMBDA b : KeyLess(last.key, b.key))
         IN  below \o <<last>> \o above

\* the orders in which a HashMap over the set keys can hand out its entries
Orders(keys) ==
    {order \in [1..Cardinality(keys) -> keys] :
        \A i, j \in 1..Cardinality(keys) : i # j => order[i] # order[j]}

\* the HashMap batches that build_render_batches collects
CollectBatches(s, node_order, light_order) ==
    CollectLights(s, light_order, CollectNodes(s, node_order, EmptyMap))

\* SceneGraph::build_render_batches
BuildRenderBatches(s, node_order, light_order, batch_order) ==
    LET batches == CollectBatches(s, node_order, light_order)
        up == UploadBatches(s.instance_pool, batches, batch_order, <<>>)
    IN  [s EXCEPT !.instance_pool = up.pool,
                  !.render_batches = SortByKey(up.render_batches)]

\* SceneGraph::add_node up to the call of build_render_batches
AddNodeStores(s, entity, handle, transform) ==
    LET t == StoreAdd(s.transforms, entity, transform)
        node == HostAdd(s.nodes, entity, handle)
        n == StoreAdd(s.normals, entity, NormalUniform(transform))
    IN  [s EXCEPT
            !.transforms = t.store,
            !.nodes = node.store,
            !.node_transform_index = Link(@, node.id, t.id),
            !.normals = n.store,
            !.node_normal_index = Link(@, node.id, n.id)]

\* SceneGraph::add_light
AddLight(s, entity, kind, transform) ==
    LET t == StoreAdd(s.transforms, entity, transform)
        light == StoreAdd(s.lights, entity, kind)
    IN  [s EXCEPT
            !.transforms = t.store,
            !.lights = light.store,
            !.lights_transform_index = Link(@, light.id, t.id)]

\* the stores whose is_dirty() SceneGraph::sync polls, in the order of the
\* || chain
Polled == <<"transforms", "lights", "node_transform_index",
            "lights_transform_index", "normals", "node_normal_index">>

\* SceneGraph::sync: is_dirty() reads and clears the flag, and || stops at
\* the first store that reports dirty
SceneSyncTransformsOnly(s) ==
    IF s.transforms.is_dirty
    THEN LET cleared == [s EXCEPT !.transforms.is_dirty = FALSE]
         IN  [cleared EXCEPT !.bind_group = CreateBindGroup(cleared)]
    ELSE s

SceneSync(s) ==
    LET dirty == {i \in 1..Len(Polled) : s[Polled[i]].is_dirty}
        first == IF dirty = {} THEN Len(Polled)
                 ELSE CHOOSE i \in dirty : \A j \in dirty : i <= j
        cleared == [f \in DOMAIN s |->
                      IF \E i \in 1..first : Polled[i] = f
                      THEN [s[f] EXCEPT !.is_dirty = FALSE] ELSE s[f]]
    IN  IF dirty # {}
        THEN [cleared EXCEPT !.bind_group = CreateBindGroup(cleared)]
        ELSE cleared

\* what a draw of the batches reads: for each batch its key and count, and
\* the records of the pool in its instance range
Range(seq) == {seq[i] : i \in 1..Len(seq)}

BatchView(s) ==
    [i \in 1..Len(s.render_batches) |->
        LET batch == s.render_batches[i]
        IN  [key |-> batch.key,
             instance_count |-> batch.instance_count,
             records |-> Range(SubSeq(s.instance_pool.buffer.data,
                                      batch.instance_offset + 1,
                                      batch.instance_offset
                                         + batch.instance_count))]]

(* ------------------------ Surface (surface.rs) ------------------------- *)

\* the states of SurfaceState; pending_resize is the configuration that
\* apply_resize parked while a texture was acquired
SurfaceNew ==
    [state |-> "Unconfigured", config |-> InitialConfig,
     pending_resize |-> None]

\* what Surface::get_current_texture can return: Ok or a wgpu::SurfaceError
TextureResults == {"Ok", "Lost", "Outdated", "Timeout"}

\* the inner size of the window: a size a Resize can carry, and a window
\* of no width or height
ZeroSize == "zero"

WindowSizes == {"c1", ZeroSize}

\* Surface::acquire: the surface afterwards and Ok or the error returned
SurfaceAcquire(surface, texture) ==
    IF surface.state = "Configured"
    THEN [surface |-> IF texture = "Ok"
                      THEN [surface EXCEPT !.state = "Acquired"] ELSE surface,
          result |-> texture]
    ELSE [surface |-> surface, result |-> "Lost"]

\* Surface::present: std::mem::take leaves Unconfigured behind
SurfacePresentKeeps(surface) == surface

\* Surface::present: std::mem::take leaves Unconfigured behind
SurfacePresent(surface) ==
    IF surface.state = "Acquired"
    THEN IF surface.pending_resize # None
         THEN [surface EXCEPT !.config = surface.pending_resize[1],
                              !.pending_resize = None,
                              !.state = "Configured"]
         ELSE [surface EXCEPT !.state = "Configured"]
    ELSE [surface EXCEPT !.state = "Unconfigured"]

\* Surface::request_resize: the surface afterwards; the configuration it
\* returns is the current one with the size asked for
SurfaceRequestResize(surface) ==
    IF surface.state \in {"Unconfigured", "Configured"}
    THEN [surface EXCEPT !.state = "Resizing"] ELSE surface

\* Surface::apply_resize
SurfaceApplyResize(surface, cfg) ==
    CASE surface.state = "Acquired" ->
            [surface EXCEPT !.pending_resize = Some(cfg)]
      [] surface.state = "Resizing" ->
            [surface EXCEPT !.config = cfg, !.state = "Configured"]
      [] OTHER -> surface

\* Surface::drop
SurfaceDrop(surface) == [surface EXCEPT !.state = "Unconfigured"]

\* NativeBackend::new / State::new: handle is the JoinHandle of the render
\* thread, dropped says that surface.drop() was called, exited that
\* event_loop.exit() was
BackendNew ==
    [surface |-> SurfaceNew, handle |-> TRUE, is_running |-> TRUE,
     dropped |-> FALSE, exited |-> FALSE]

(* ----------------- RenderCommand / RenderEvent (renderer) -------------- *)

CoalescedKinds == {"Resize", "UpdateCamera", "RenderFrame"}

OrderedKinds == {"LoadAsset", "SpawnAsset", "SpawnLight", "UpdateTransform",
                 "UpdateLight", "Stop"}

Kinds == CoalescedKinds \cup OrderedKinds

\* id is the position of the command in the order of enqueueing; config is
\* the payload of Resize; fails says that load_asset returns an error for
\* the asset buffer a LoadAsset carries
Command(kind, id, cfg, fails) ==
    [kind |-> kind, id |-> id, config |-> cfg, fails |-> fails]

IsOrdered(c) == c.kind \in OrderedKinds

Ordered(s) == SelectSeq(s, IsOrdered)

(* ------------------------ Inbox of RenderCore::run --------------------- *)

EmptyInbox == [camera |-> None, resize |-> None, frame |-> None]

\* Inbox::receive: the pair of the new inbox and the command handed back
ReceiveKeepsFirst(box, command) ==
    CASE command.kind = "UpdateCamera" ->
            [inbox |-> IF box.camera = None
                       THEN [box EXCEPT !.camera = Some(command)] ELSE box,
             other |-> None]
      [] command.kind = "Resize" ->
            [inbox |-> IF box.resize = None
                       THEN [box EXCEPT !.resize = Some(command)] ELSE box,
             other |-> None]
      [] command.kind = "RenderFrame" ->
            [inbox |-> IF box.frame = None
                       THEN [box EXCEPT !.frame = Some(command)] ELSE box,
             other |-> None]
      [] OTHER -> [inbox |-> box, other |-> Some(command)]

ReceiveDropsUpdates(box, command) ==
    CASE command.kind = "UpdateCamera" ->
            [inbox |-> [box EXCEPT !.camera = Some(command)], other |-> None]
      [] command.kind = "Resize" ->
            [inbox |-> [box EXCEPT !.resize = Some(command)], other |-> None]
      [] command.kind = "RenderFrame" ->
            [inbox |-> [box EXCEPT !.frame = Some(command)], other |-> None]
      [] command.kind = "UpdateTransform" -> [inbox |-> box, other |-> None]
      [] OTHER -> [inbox |-> box, other |-> Some(command)]

InboxReceive(box, command) ==
    CASE command.kind = "UpdateCamera" ->
            [inbox |-> [box EXCEPT !.camera = Some(command)], other |-> None]
      [] command.kind = "Resize" ->
            [inbox |-> [box EXCEPT !.resize = Some(command)], other |-> None]
      [] command.kind = "RenderFrame" ->
            [inbox |-> [box EXCEPT !.frame = Some(command)], other |-> None]
      [] OTHER -> [inbox |-> box, other |-> Some(command)]

\* Inbox::take_ready: [resize, camera, frame].into_iter().flatten()
TakeReadyFrameFirst(box) == box.frame \o box.camera \o box.resize

TakeReady(box) == box.resize \o box.camera \o box.frame

(* ------------------- RenderCore::handle_command ------------------------ *)

Event(type, cfg) == [type |-> type, config |-> cfg]

\* the fields of RenderCore (and of its RenderContext) that handle_command
\* reads and writes, with the event channel; error is the Err(..) result
CoreState ==
    [is_running |-> is_running, config |-> config,
     pending_resize |-> pending_resize, camera |-> camera,
     result_tx |-> result_tx, error |-> FALSE]

\* RenderContext::resize: the configuration, and with it the depth texture
\* and the HDR target, are replaced
ContextResize(core, cfg) == [core EXCEPT !.config = cfg]

HandleCommandStopIgnored(core, command) ==
    CASE command.kind = "RenderFrame" ->
            LET sent_frame == [core EXCEPT !.result_tx =
                                  Append(@, Event("FrameComplete", None))]
            IN  IF core.pending_resize # None
                THEN [ContextResize(sent_frame, core.pending_resize[1])
                         EXCEPT !.pending_resize = None]
                ELSE sent_frame
      [] command.kind = "UpdateCamera" -> [core EXCEPT !.camera = command.id]
      [] command.kind = "LoadAsset" ->
            IF command.fails
            THEN [core EXCEPT !.error = TRUE]
            ELSE [core EXCEPT !.result_tx =
                     Append(@, Event("LoadComplete", None))]
      [] command.kind = "Resize" ->
            [core EXCEPT !.pending_resize = Some(command.config),
                         !.result_tx = Append(@, Event("ResizeComplete",
                                                       Some(command.config)))]
      [] OTHER -> core

HandleCommand(core, command) ==
    CASE command.kind = "RenderFrame" ->
            \* render_frame, then FrameComplete, then the pending resize
            LET sent_frame == [core EXCEPT !.result_tx =
                                  Append(@, Event("FrameComplete", None))]
            IN  IF core.pending_resize # None
                THEN [ContextResize(sent_frame, core.pending_resize[1])
                         EXCEPT !.pending_resize = None]
                ELSE sent_frame
      [] command.kind = "UpdateCamera" -> [core EXCEPT !.camera = command.id]
      [] command.kind = "LoadAsset" ->
            IF command.fails
            THEN [core EXCEPT !.error = TRUE]
            ELSE [core EXCEPT !.result_tx =
                     Append(@, Event("LoadComplete", None))]
      [] command.kind = "Resize" ->
            [core EXCEPT !.pending_resize = Some(command.config),
                         !.result_tx = Append(@, Event("ResizeComplete",
                                                       Some(command.config)))]
      [] command.kind = "Stop" -> [core EXCEPT !.is_running = FALSE]
      \* SpawnAsset, SpawnLight, UpdateTransform, UpdateLight change the scene
      \* only; the command pipeline sees them through the applied log
      [] OTHER -> core

\* one call self.handle_command(command)?; next_pc is where run() goes on
\* when the call returns Ok, and an Err makes run() return at once
HandleGoesOn(command, next_pc) ==
    LET core == HandleCommand(CoreState, command)
    IN  /\ is_running' = core.is_running
        /\ config' = core.config
        /\ pending_resize' = core.pending_resize
        /\ camera' = core.camera
        /\ result_tx' = core.result_tx
        /\ pc' = next_pc
        /\ applied' = Append(applied, command)
        /\ cycle_applied' = Append(cycle_applied, command)
        /\ frames' = IF command.kind = "RenderFrame"
                      THEN Append(frames, [id |-> command.id,
                                           config |-> config,
                                           latest |-> last_resize])
                      ELSE frames
        /\ last_resize' = IF command.kind = "Resize"
                           THEN Some(command.config) ELSE last_resize

\* one call self.handle_command(command)?; next_pc is where run() goes on
\* when the call returns Ok, and an Err makes run() return at once
Handle(command, next_pc) ==
    LET core == HandleCommand(CoreState, command)
    IN  /\ is_running' = core.is_running
        /\ config' = core.config
        /\ pending_resize' = core.pending_resize
        /\ camera' = core.camera
        /\ result_tx' = core.result_tx
        /\ pc' = IF core.error THEN "failed" ELSE next_pc
        /\ applied' = Append(applied, command)
        /\ cycle_applied' = Append(cycle_applied, command)
        /\ frames' = IF command.kind = "RenderFrame"
                      THEN Append(frames, [id |-> command.id,
                                           config |-> config,
                                           latest |-> last_resize])
                      ELSE frames
        /\ last_resize' = IF command.kind = "Resize"
                           THEN Some(command.config) ELSE last_resize

\* inbox.receive(command) followed by handle_command on what it hands back
ReceiveAndHandle(command, next_pc) ==
    LET got == InboxReceive(inbox, command)
    IN  /\ inbox' = got.inbox
        /\ received' = Append(received, command)
        /\ cycle_recv' = Append(cycle_recv, command)
        /\ IF got.other # None
           THEN Handle(got.other[1], next_pc)
           ELSE /\ pc' = next_pc
                /\ UNCHANGED <<is_running, config, pending_resize, camera,
                               result_tx, applied, cycle_applied, frames,
                               last_resize>>

(* ----------------------- control side of the channel ------------------- *)

\* render_tx.send(command): the channel is an unbounded FIFO
Send(kind, cfg, fails) ==
    /\ senders_alive
    /\ sent < MaxCmds
    /\ pc \notin {"done", "failed"}
    /\ sent' = sent + 1
    /\ render_rx' = Append(render_rx, Command(kind, sent + 1, cfg, fails))
    /\ UNCHANGED <<senders_alive, result_tx, is_running, inbox, ready, pc,
                   config, pending_resize, camera, received, applied,
                   cycle_recv, cycle_applied, cycle_queued, frames,
                   last_resize, recv_disconnected>>
    /\ UNCHANGED <<store_vars, scene_vars, control_vars, pool_vars>>

SendCommand ==
    \E kind \in Kinds :
        \E cfg \in (IF kind = "Resize" THEN Configs ELSE {InitialConfig}) :
            \E fails \in (IF kind = "LoadAsset" THEN BOOLEAN ELSE {FALSE}) :
                Send(kind, cfg, fails)

\* the last Sender<RenderCommand> is dropped
DropSenders ==
    /\ senders_alive
    /\ senders_alive' = FALSE
    /\ UNCHANGED <<render_rx, sent, result_tx, is_running, inbox, ready, pc,
                   config, pending_resize, camera, received, applied,
                   cycle_recv, cycle_applied, cycle_queued, frames,
                   last_resize, recv_disconnected>>
    /\ UNCHANGED <<store_vars, scene_vars, control_vars, pool_vars>>

(* ---------------------------- RenderCore::run -------------------------- *)

\* while self.is_running { ...
LoopEnterAnyway ==
    /\ pc = "test"
    /\ pc' = "recv"
    /\ cycle_recv' = <<>>
    /\ cycle_applied' = <<>>
    /\ cycle_queued' = render_rx
    /\ recv_disconnected' = FALSE
    /\ UNCHANGED <<render_rx, senders_alive, sent, result_tx, is_running,
                   inbox, ready, config, pending_resize, camera, received,
                   applied, frames, last_resize>>
    /\ UNCHANGED <<store_vars, scene_vars, control_vars, pool_vars>>

\* while self.is_running { ...
LoopEnter ==
    /\ pc = "test"
    /\ is_running
    /\ pc' = "recv"
    /\ cycle_recv' = <<>>
    /\ cycle_applied' = <<>>
    /\ cycle_queued' = render_rx
    /\ recv_disconnected' = FALSE
    /\ UNCHANGED <<render_rx, senders_alive, sent, result_tx, is_running,
                   inbox, ready, config, pending_resize, camera, received,
                   applied, frames, last_resize>>
    /\ UNCHANGED <<store_vars, scene_vars, control_vars, pool_vars>>

\* ... } self.result_tx.send(RenderEvent::Stopped)?; Ok(())
LoopExit ==
    /\ pc = "test"
    /\ ~is_running
    /\ result_tx' = Append(result_tx, Event("Stopped", None))
    /\ pc' = "done"
    /\ UNCHANGED <<render_rx, senders_alive, sent, is_running, inbox, ready,
                   config, pending_resize, camera, received, applied,
                   cycle_recv, cycle_applied, cycle_queued, frames,
                   last_resize, recv_disconnected>>
    /\ UNCHANGED <<store_vars, scene_vars, control_vars, pool_vars>>

\* if let Ok(command) = self.render_rx.recv() { ... }: blocks while the
\* channel is empty and a sender lives; Err once it is empty and disconnected
Recv ==
    /\ pc = "recv"
    /\ \/ /\ render_rx # <<>>
          /\ render_rx' = Tail(render_rx)
          /\ ReceiveAndHandle(Head(render_rx), "drain")
          /\ UNCHANGED recv_disconnected
       \/ /\ render_rx = <<>>
          /\ ~senders_alive
          /\ recv_disconnected' = TRUE
          /\ pc' = "drain"
          /\ UNCHANGED <<render_rx, result_tx, is_running, inbox, config,
                         pending_resize, camera, received, applied,
                         cycle_recv, cycle_applied, frames, last_resize>>
    /\ UNCHANGED <<senders_alive, sent, ready, cycle_queued>>
    /\ UNCHANGED <<store_vars, scene_vars, control_vars, pool_vars>>

\* while let Ok(command) = self.render_rx.try_recv() { ... }
TryRecv ==
    /\ pc = "drain"
    /\ render_rx # <<>>
    /\ render_rx' = Tail(render_rx)
    /\ ReceiveAndHandle(Head(render_rx), "drain")
    /\ UNCHANGED <<senders_alive, sent, ready, cycle_queued,
                   recv_disconnected>>
    /\ UNCHANGED <<store_vars, scene_vars, control_vars, pool_vars>>

\* try_recv found the channel empty: inbox.take_ready()
DrainEnd ==
    /\ pc = "drain"
    /\ render_rx = <<>>
    /\ ready' = TakeReady(inbox)
    /\ inbox' = EmptyInbox
    /\ pc' = "ready"
    /\ UNCHANGED <<render_rx, senders_alive, sent, result_tx, is_running,
                   config, pending_resize, camera, received, applied,
                   cycle_recv, cycle_applied, cycle_queued, frames,
                   last_resize, recv_disconnected>>
    /\ UNCHANGED <<store_vars, scene_vars, control_vars, pool_vars>>

\* for command in inbox.take_ready() { self.handle_command(command)?; }
ApplyReady ==
    /\ pc = "ready"
    /\ ready # <<>>
    /\ ready' = Tail(ready)
    /\ Handle(Head(ready), "ready")
    /\ UNCHANGED <<render_rx, senders_alive, sent, inbox, received,
                   cycle_recv, cycle_queued, recv_disconnected>>
    /\ UNCHANGED <<store_vars, scene_vars, control_vars, pool_vars>>

\* the for loop is over: back to the test of the while loop
CycleEnd ==
    /\ pc = "ready"
    /\ ready = <<>>
    /\ pc' = "test"
    /\ UNCHANGED <<render_rx, senders_alive, sent, result_tx, is_running,
                   inbox, ready, config, pending_resize, camera, received,
                   applied, cycle_recv, cycle_applied, cycle_queued, frames,
                   last_resize, recv_disconnected>>
    /\ UNCHANGED <<store_vars, scene_vars, control_vars, pool_vars>>

RenderLoop == LoopEnter \/ LoopExit \/ Recv \/ TryRecv \/ DrainEnd
              \/ ApplyReady \/ CycleEnd

(* --------------------------- WorkerPool (worker) ----------------------- *)

\* data of a message event: the handshake string of WorkerRuntime::run, or
\* the buffer posted by the run of a task (result_of names that task)
ReadyMessage == [as_string |-> Some("ready"), result_of |-> 0]

ResultMessage(task) == [as_string |-> None, result_of |-> task]

\* WorkerPool::new: no worker, no task, capacity from hardware_concurrency;
\* submissions[id + 1] is the entry of the map under the key id
WorkerPoolNew(capacity) ==
    [workers |-> <<>>, queue |-> <<>>, capacity |-> capacity,
     submissions |-> [i \in 1..capacity |-> None]]

\* a web worker as Worker::new leaves it: the script is not yet evaluated
\* (started), nothing was posted to it (mailbox), it runs no task (running)
\* and it has posted nothing (outbox)
WebWorkerNew ==
    [started |-> FALSE, mailbox |-> <<>>, running |-> {}, outbox |-> <<>>]

\* workers.iter_mut().find(|w| matches!(w.state, WorkerState::Ready)), as
\* the id of the worker found
FindAny(workers) ==
    IF workers = <<>> THEN None ELSE Some(0)

FindReady(workers) ==
    LET ids == {i \in 1..Len(workers) : workers[i] = "Ready"}
    IN  IF ids = {} THEN None
        ELSE Some((CHOOSE i \in ids : \A j \in ids : i <= j) - 1)

\* WorkerPoolInner::assign_task on the record of the pool; the message to
\* the worker is posted by the action that calls it
AssignTask(p, worker_id, task) ==
    [p EXCEPT !.workers[worker_id + 1] = "Busy",
              !.submissions[worker_id + 1] = Some(task)]

\* what assign_task finds when it is called: the state of the worker and
\* the entry of submissions it overwrites
Assignment(p, worker_id, task) ==
    [worker_id |-> worker_id, task |-> task,
     state |-> p.workers[worker_id + 1],
     replaced |-> p.submissions[worker_id + 1]]

\* WorkerPoolInner::dispatch_next: the pool afterwards and the assignment
\* made, if any
DispatchNext(p) ==
    IF p.queue = <<>>
    THEN [pool |-> p, assigned |-> None]
    ELSE LET next_task == Head(p.queue)
             popped == [p EXCEPT !.queue = Tail(p.queue)]
             found == FindReady(popped.workers)
         IN  IF found # None
             THEN [pool |-> AssignTask(popped, found[1], next_task),
                   assigned |-> Some(Assignment(popped, found[1], next_task))]
             ELSE [pool |-> [popped EXCEPT !.queue = <<next_task>> \o @],
                   assigned |-> None]

\* worker.state = WorkerState::Ready, if the pool has a worker of that id
SetReady(p, worker_id) ==
    IF worker_id < Len(p.workers)
    THEN [p EXCEPT !.workers[worker_id + 1] = "Ready"]
    ELSE p

\* WorkerPoolInner::handle_message: the pool afterwards, the assignment
\* made and the task whose on_complete was called, if any
HandleMessage(p, worker_id, data) ==
    IF data.as_string = Some("ready")
    THEN LET next == DispatchNext(SetReady(p, worker_id))
         IN  [pool |-> next.pool, assigned |-> next.assigned,
              completed |-> None]
    ELSE LET submission == p.submissions[worker_id + 1]
             removed == [p EXCEPT !.submissions[worker_id + 1] = None]
             next == DispatchNext(SetReady(removed, worker_id))
         IN  [pool |-> next.pool, assigned |-> next.assigned,
              completed |-> submission]

\* the pool before its first submit
PoolIdle ==
    /\ worker_pool = WorkerPoolNew(MaxWorkers)
    /\ web_workers = <<>>
    /\ completed = <<>>
    /\ last_assign = None
    /\ submitted = 0

(* --------------------------- the command pipeline ---------------------- *)

\* the stores as SceneGraph::new leaves them, none of them used yet
StoreIdle ==
    /\ transforms = StoreNew(MaxInitCapacity)
    /\ nodes = HostNew
    /\ node_transform_index = RelNew(MaxInitCapacity)
    /\ handle_of = [k \in Keys |-> None]
    /\ host_handle_of = [k \in Keys |-> None]
    /\ grown_from = None
    /\ linked = [a \in Indices |-> None]
    /\ last_link = None

\* RenderCore::new, with both channels empty
LoopInit ==
    /\ render_rx = <<>>
    /\ senders_alive = TRUE
    /\ sent = 0
    /\ result_tx = <<>>
    /\ is_running = TRUE
    /\ inbox = EmptyInbox
    /\ ready = <<>>
    /\ pc = "test"
    /\ config = InitialConfig
    /\ pending_resize = None
    /\ camera = 0
    /\ received = <<>>
    /\ applied = <<>>
    /\ cycle_recv = <<>>
    /\ cycle_applied = <<>>
    /\ cycle_queued = <<>>
    /\ frames = <<>>
    /\ last_resize = None
    /\ recv_disconnected = FALSE

\* the scene as SceneGraph::new leaves it
SceneIdle ==
    /\ scene = SceneNew(MaxSceneCapacity, MaxPoolCapacity)
    /\ built = TRUE
    /\ last_draw = None
    /\ last_build = None
    /\ scene_ops = 0

\* the native control side before its first call
ControlIdle ==
    /\ control = "native"
    /\ backend = BackendNew
    /\ thread = "running"
    /\ polled = 0
    /\ last_tick = None
    /\ send_failed = FALSE
    /\ trial = None

Init == LoopInit /\ StoreIdle /\ SceneIdle /\ ControlIdle /\ PoolIdle

Next == SendCommand \/ DropSenders \/ LoopEnter \/ LoopExit \/ Recv
        \/ TryRecv \/ DrainEnd \/ ApplyReady \/ CycleEnd

Spec == Init /\ [][Next]_vars

FairSendCommand == sent < MaxFairCmds /\ SendCommand

FairNext == FairSendCommand \/ DropSenders \/ LoopEnter \/ LoopExit \/ Recv
            \/ TryRecv \/ DrainEnd \/ ApplyReady \/ CycleEnd

\* the render thread is a running thread: a step of run() that can be taken
\* is eventually taken
FairSpec == Init /\ [][FairNext]_vars /\ WF_vars(RenderLoop)

(* ------------------------- the stores in use --------------------------- *)

Observed(id, value) == Some([id |-> id, value |-> value])

\* transforms.add(key, component, context)
TransformsAdd(key, component) ==
    LET added == StoreAdd(transforms, key, component)
    IN  /\ ~transforms.buffer.fault
        /\ transforms' = added.store
        /\ handle_of' = [handle_of EXCEPT ![key] = Observed(added.id, component)]
        /\ grown_from' = IF added.store.buffer.serial # transforms.buffer.serial
                          THEN Some(transforms) ELSE None
        /\ UNCHANGED <<nodes, node_transform_index, host_handle_of, linked,
                       last_link>>
        /\ UNCHANGED <<loop_vars, scene_vars, control_vars, pool_vars>>

\* transforms.remove(&key)
TransformsRemoveUnlinks(key) ==
    /\ ~transforms.buffer.fault
    /\ transforms' = StoreRemove(transforms, key)
    /\ handle_of' = [handle_of EXCEPT ![key] = None]
    /\ grown_from' = None
    /\ node_transform_index' =
          IF key \in DOMAIN transforms.index_map
          THEN [node_transform_index EXCEPT !.mapping =
                   [i \in 1..Len(@) |->
                       IF @[i] = transforms.index_map[key] THEN 0 ELSE @[i]]]
          ELSE node_transform_index
    /\ UNCHANGED <<nodes, host_handle_of, linked, last_link>>
    /\ UNCHANGED <<loop_vars, scene_vars, control_vars, pool_vars>>

TransformsRemove(key) ==
    /\ ~transforms.buffer.fault
    /\ transforms' = StoreRemove(transforms, key)
    /\ handle_of' = [handle_of EXCEPT ![key] = None]
    /\ grown_from' = None
    /\ UNCHANGED <<nodes, node_transform_index, host_handle_of, linked,
                   last_link>>
    /\ UNCHANGED <<loop_vars, scene_vars, control_vars, pool_vars>>

\* transforms.set(&key, component, context)
TransformsSet(key, component) ==
    /\ ~transforms.buffer.fault
    /\ transforms' = StoreSet(transforms, key, component)
    /\ handle_of' = IF handle_of[key] # None
                     THEN [handle_of EXCEPT
                              ![key] = Observed(handle_of[key][1].id, component)]
                     ELSE handle_of
    /\ grown_from' = None
    /\ UNCHANGED <<nodes, node_transform_index, host_handle_of, linked,
                   last_link>>
    /\ UNCHANGED <<loop_vars, scene_vars, control_vars, pool_vars>>

\* nodes.add(key, component)
NodesAdd(key, component) ==
    LET added == HostAdd(nodes, key, component)
    IN  /\ nodes' = added.store
        /\ host_handle_of' =
              [host_handle_of EXCEPT ![key] = Observed(added.id, component)]
        /\ UNCHANGED <<transforms, node_transform_index, handle_of,
                       grown_from, linked, last_link>>
        /\ UNCHANGED <<loop_vars, scene_vars, control_vars, pool_vars>>

\* nodes.remove(&key)
NodesRemove(key) ==
    /\ nodes' = HostRemove(nodes, key)
    /\ host_handle_of' = [host_handle_of EXCEPT ![key] = None]
    /\ UNCHANGED <<transforms, node_transform_index, handle_of, grown_from,
                   linked, last_link>>
    /\ UNCHANGED <<loop_vars, scene_vars, control_vars, pool_vars>>

\* node_transform_index.link(a, b, context)
NodeTransformLink(a, b) ==
    /\ ~node_transform_index.buffer.fault
    /\ node_transform_index' = Link(node_transform_index, a, b)
    /\ linked' = [linked EXCEPT ![a] = Some(b)]
    /\ last_link' = Some([a |-> a, b |-> b,
                          before |-> node_transform_index.mapping])
    /\ UNCHANGED <<transforms, nodes, handle_of, host_handle_of, grown_from>>
    /\ UNCHANGED <<loop_vars, scene_vars, control_vars, pool_vars>>

AddTransform == \E key \in Keys : \E component \in Values :
                    TransformsAdd(key, component)

RemoveTransform == \E key \in Keys : TransformsRemove(key)

SetTransform == \E key \in Keys : \E component \in Values :
                    TransformsSet(key, component)

AddNode == \E key \in Keys : \E component \in Values :
               NodesAdd(key, component)

RemoveNode == \E key \in Keys : NodesRemove(key)

LinkNodeTransform == \E a \in Indices : \E b \in Indices :
                         NodeTransformLink(a, b)

\* stores built with any capacity up to MaxInitCapacity
StoreInit ==
    /\ LoopInit
    /\ SceneIdle
    /\ PoolIdle
    /\ ControlIdle
    /\ \E capacity \in 1..MaxInitCapacity :
          /\ transforms = StoreNew(capacity)
          /\ node_transform_index = RelNew(capacity)
    /\ nodes = HostNew
    /\ handle_of = [k \in Keys |-> None]
    /\ host_handle_of = [k \in Keys |-> None]
    /\ grown_from = None
    /\ linked = [a \in Indices |-> None]
    /\ last_link = None

\* a ComponentStore, or a HostComponentStore, under any sequence of calls.
\* The two stores share no state, so a run drives one of them: it is the
\* device store while the host store is as built, and the other way round.
DeviceStoreNext ==
    /\ nodes = HostNew
    /\ (AddTransform \/ RemoveTransform \/ SetTransform)

HostStoreNext ==
    /\ transforms.components = <<>>
    /\ (AddNode \/ RemoveNode)

StoreNext == DeviceStoreNext \/ HostStoreNext

StoreSpec == StoreInit /\ [][StoreNext]_vars

\* a RelationStore under any sequence of link calls
RelationNext == LinkNodeTransform

RelationSpec == StoreInit /\ [][RelationNext]_vars

\* a RelationStore whose values are handles of the transforms store, while
\* transforms are added and removed
\* link(a, b) as add_node and add_light call it: a is a handle of a dense
\* store, so it is at most the length of the mapping, and b is the handle
\* of a live transform
LinkToTransform ==
    \E a \in Indices : \E key \in DOMAIN transforms.index_map :
        /\ a <= Len(node_transform_index.mapping)
        /\ NodeTransformLink(a, transforms.index_map[key])

\* transforms.add of an entity that is not in the store
AddNewTransform ==
    \E key \in (1..MaxLinkedKeys) \ DOMAIN transforms.index_map :
        TransformsAdd(key, "v1")

DanglingNext == LinkToTransform \/ AddNewTransform \/ RemoveTransform

DanglingSpec == StoreInit /\ [][DanglingNext]_vars

(* --------------------------- the scene in use -------------------------- *)

\* no write has failed so far, and the run may make one more call
SceneHealthy ==
    /\ ~scene.instance_pool.buffer.fault
    /\ \A i \in 1..Len(Polled) : ~scene[Polled[i]].buffer.fault
    /\ scene_ops < MaxSceneOps

\* build_render_batches on the stores s, with the HashMaps handing out their
\* entries in any order; mutated says that s differs from scene
Rebuild(s, mutated) ==
    \E node_order \in Orders(DOMAIN s.nodes.index_map) :
    \E light_order \in Orders(DOMAIN s.lights.index_map) :
    \E batch_order \in
          Orders(DOMAIN CollectBatches(s, node_order, light_order)) :
        /\ scene' = BuildRenderBatches(s, node_order, light_order, batch_order)
        /\ last_build' =
              Some([consecutive |-> built /\ ~mutated,
                    caught_up |-> ~built,
                    before |-> IF built /\ ~mutated
                               THEN BatchView(scene) ELSE <<>>,
                    after |-> BatchView(scene')])
        /\ built' = TRUE

\* RenderCommand::SpawnAsset: spawn_asset calls scene.add_node
SceneAddNode(entity, handle, transform) ==
    /\ SceneHealthy
    /\ Rebuild(AddNodeStores(scene, entity, handle, transform), TRUE)
    /\ UNCHANGED last_draw
    /\ scene_ops' = scene_ops + 1
    /\ UNCHANGED <<loop_vars, store_vars, control_vars, pool_vars>>

\* RenderCommand::SpawnLight: spawn_light calls scene.add_light
SceneAddLight(entity, kind, transform) ==
    /\ SceneHealthy
    /\ scene' = AddLight(scene, entity, kind, transform)
    /\ built' = FALSE
    /\ UNCHANGED <<last_draw, last_build>>
    /\ scene_ops' = scene_ops + 1
    /\ UNCHANGED <<loop_vars, store_vars, control_vars, pool_vars>>

\* RenderCommand::UpdateTransform
SceneUpdateTransform(entity, transform) ==
    /\ SceneHealthy
    /\ scene' = [scene EXCEPT !.transforms = StoreSet(@, entity, transform)]
    /\ UNCHANGED <<built, last_draw, last_build>>
    /\ scene_ops' = scene_ops + 1
    /\ UNCHANGED <<loop_vars, store_vars, control_vars, pool_vars>>

\* RenderCommand::UpdateLight
SceneUpdateLight(entity) ==
    /\ SceneHealthy
    /\ scene' = [scene EXCEPT !.lights = StoreSet(@, entity, "point")]
    /\ built' = FALSE
    /\ UNCHANGED <<last_draw, last_build>>
    /\ scene_ops' = scene_ops + 1
    /\ UNCHANGED <<loop_vars, store_vars, control_vars, pool_vars>>

\* RenderCore::render_frame: scene.sync, then the draw of the scene with
\* scene.bind_group
SceneRenderFrame ==
    /\ SceneHealthy
    /\ scene' = SceneSync(scene)
    /\ last_draw' = Some([bind_group |-> scene'.bind_group,
                          buffers |-> CreateBindGroup(scene'),
                          stale_before |->
                              scene.bind_group # CreateBindGroup(scene)])
    /\ UNCHANGED <<built, last_build>>
    /\ scene_ops' = scene_ops + 1
    /\ UNCHANGED <<loop_vars, store_vars, control_vars, pool_vars>>

\* scene.nodes.remove(&entity)
SceneRemoveNode(entity) ==
    /\ SceneHealthy
    /\ scene' = [scene EXCEPT !.nodes = HostRemove(@, entity)]
    /\ built' = FALSE
    /\ UNCHANGED <<last_draw, last_build>>
    /\ scene_ops' = scene_ops + 1
    /\ UNCHANGED <<loop_vars, store_vars, control_vars, pool_vars>>

\* scene.build_render_batches(context)
SceneRebuild ==
    /\ SceneHealthy
    /\ Rebuild(scene, FALSE)
    /\ UNCHANGED last_draw
    /\ scene_ops' = scene_ops + 1
    /\ UNCHANGED <<loop_vars, store_vars, control_vars, pool_vars>>

\* a spawn carries the transform "v1"; UpdateTransform replaces it
SpawnAsset == \E entity \in Entities : \E handle \in Handles :
                  SceneAddNode(entity, handle, "v1")

SpawnLight == \E entity \in Entities : \E kind \in LightKinds :
                  SceneAddLight(entity, kind, "v1")

UpdateTransform == \E entity \in Entities : \E transform \in Values :
                       SceneUpdateTransform(entity, transform)

UpdateLight == \E entity \in Entities : SceneUpdateLight(entity)

RemoveSceneNode == \E entity \in Entities : SceneRemoveNode(entity)

SceneInit == LoopInit /\ StoreIdle /\ SceneIdle /\ ControlIdle /\ PoolIdle

\* the scene under the commands that change it, and frames
BindingNext == SpawnAsset \/ SpawnLight \/ UpdateTransform \/ UpdateLight
               \/ SceneRenderFrame

BindingSpec == SceneInit /\ [][BindingNext]_vars

\* the batches of the scene under the commands that add to it, and
\* rebuilds of the batches
BatchNext == SpawnAsset \/ SpawnLight \/ SceneRebuild

BatchSpec == SceneInit /\ [][BatchNext]_vars

\* Light::Directional, Light::Point and Light::Spot
AnyLightKinds == LightKinds \cup {"spot"}

SpawnAnyLight == \E entity \in Entities : \E kind \in AnyLightKinds :
                     SceneAddLight(entity, kind, "v1")

\* a spawn of the mesh asset
SpawnMesh == \E entity \in Entities : SceneAddNode(entity, "mesh1", "v1")

\* the scene under lights of every kind, nodes, and rebuilds of the batches
LightNext == SpawnMesh \/ SpawnAnyLight \/ SceneRebuild

LightSpec == SceneInit /\ [][LightNext]_vars

\* the scene under add_node and UpdateTransform
NormalNext == SpawnMesh \/ UpdateTransform

NormalSpec == SceneInit /\ [][NormalNext]_vars

\* the scene under add_node alone
AddNodeNext == SpawnAsset

AddNodeSpec == SceneInit /\ [][AddNodeNext]_vars

\* the scene under add_node, nodes.remove and rebuilds of the batches
RemovalNext == SpawnAsset \/ RemoveSceneNode \/ SceneRebuild

RemovalSpec == SceneInit /\ [][RemovalNext]_vars

(* ------------- the control side: NativeBackend and State --------------- *)

\* render_tx.send of the commands of one call, in their order
SendAll(commands) ==
    /\ render_rx' = render_rx \o
          [i \in 1..Len(commands) |->
              Command(commands[i].kind, sent + i, commands[i].config, FALSE)]
    /\ sent' = sent + Len(commands)

Msg(kind, cfg) == [kind |-> kind, config |-> cfg]

\* what request_frame does with the result of surface.acquire(): the surface
\* afterwards and the commands sent. resize_sends tells whether resize()
\* sends for the window size at hand.
AcquireArmsStops(surface, texture, size, resize_sends) ==
    LET acquired == SurfaceAcquire(surface, texture)
    IN  CASE acquired.result = "Ok" ->
                [surface |-> acquired.surface,
                 commands |-> <<Msg("RenderFrame", InitialConfig)>>]
          [] acquired.result \in {"Lost", "Outdated"} ->
                [surface |-> acquired.surface,
                 commands |-> <<Msg("Stop", InitialConfig)>>]
          [] OTHER -> [surface |-> acquired.surface, commands |-> <<>>]

AcquireArms(surface, texture, size, resize_sends) ==
    LET acquired == SurfaceAcquire(surface, texture)
    IN  CASE acquired.result = "Ok" ->
                [surface |-> acquired.surface,
                 commands |-> <<Msg("RenderFrame", InitialConfig)>>]
          [] acquired.result \in {"Lost", "Outdated"} ->
                IF resize_sends
                THEN [surface |-> SurfaceRequestResize(acquired.surface),
                      commands |-> <<Msg("Resize", size)>>]
                ELSE [surface |-> acquired.surface, commands |-> <<>>]
          [] OTHER -> [surface |-> acquired.surface, commands |-> <<>>]

\* the render thread is gone once run() has returned and the closure of
\* std::thread::spawn with it
ThreadReturn ==
    /\ pc \in {"done", "failed"}
    /\ thread = "running"
    /\ thread' = "finished"
    /\ UNCHANGED <<control, backend, polled, last_tick, send_failed, trial>>
    /\ UNCHANGED <<loop_vars, store_vars, scene_vars, pool_vars>>

ControlLive ==
    /\ ~backend.exited
    /\ sent < MaxControlCmds
    /\ pc \notin {"done", "failed"}

\* the Receiver<RenderCommand> lives in the RenderCore that the thread
\* closure owns: it is there until run() has returned and the closure with it
ReceiverHeld == thread = "running"

\* render_tx.send(command).unwrap() for the commands of one call: Err, and
\* with it the panic of unwrap, when the receiver is gone
UnwrapSend(commands) ==
    IF ReceiverHeld \/ commands = <<>>
    THEN /\ SendAll(commands)
         /\ UNCHANGED send_failed
    ELSE /\ send_failed' = TRUE
         /\ UNCHANGED <<render_rx, sent>>

\* a NativeBackend whose thread has neither left the event loop nor
\* panicked
NativeLive ==
    /\ control = "native"
    /\ ~backend.exited
    /\ ~send_failed
    /\ sent < MaxControlCmds

\* NativeBackend::request_frame
NativeRequestFrame(texture, size) ==
    /\ NativeLive
    /\ IF backend.is_running
       THEN LET arm == AcquireArms(backend.surface, texture, size, TRUE)
            IN  /\ backend' = [backend EXCEPT !.surface = arm.surface]
                /\ UnwrapSend(arm.commands)
                /\ last_tick' = Some([result |-> SurfaceAcquire(
                                                    backend.surface,
                                                    texture).result,
                                      size |-> size,
                                      commands |-> arm.commands,
                                      terminated |->
                                          \/ backend'.exited
                                          \/ ~backend'.is_running
                                          \/ send_failed'])
       ELSE /\ UnwrapSend(<<Msg("Stop", InitialConfig)>>)
            /\ UNCHANGED <<backend, last_tick>>
    /\ UNCHANGED <<control, thread, polled, trial>>
    /\ UNCHANGED <<senders_alive, result_tx, is_running, inbox, ready, pc,
                   config, pending_resize, camera, received, applied,
                   cycle_recv, cycle_applied, cycle_queued, frames,
                   last_resize, recv_disconnected>>
    /\ UNCHANGED <<store_vars, scene_vars, pool_vars>>

\* NativeBackend::resize
NativeResize(size) ==
    /\ NativeLive
    /\ backend' = [backend EXCEPT !.surface = SurfaceRequestResize(@)]
    /\ UnwrapSend(<<Msg("Resize", size)>>)
    /\ UNCHANGED <<control, thread, polled, last_tick, trial>>
    /\ UNCHANGED <<senders_alive, result_tx, is_running, inbox, ready, pc,
                   config, pending_resize, camera, received, applied,
                   cycle_recv, cycle_applied, cycle_queued, frames,
                   last_resize, recv_disconnected>>
    /\ UNCHANGED <<store_vars, scene_vars, pool_vars>>

\* NativeBackend::update_camera
NativeUpdateCamera ==
    /\ NativeLive
    /\ UnwrapSend(<<Msg("UpdateCamera", InitialConfig)>>)
    /\ UNCHANGED <<control, backend, thread, polled, last_tick, trial>>
    /\ UNCHANGED <<senders_alive, result_tx, is_running, inbox, ready, pc,
                   config, pending_resize, camera, received, applied,
                   cycle_recv, cycle_applied, cycle_queued, frames,
                   last_resize, recv_disconnected>>
    /\ UNCHANGED <<store_vars, scene_vars, pool_vars>>

\* RenderBackend::exit / State::exit
ControlExit ==
    /\ ~backend.exited
    /\ ~send_failed
    /\ backend.is_running
    /\ backend' = [backend EXCEPT !.is_running = FALSE]
    /\ UNCHANGED <<control, thread, polled, last_tick, send_failed, trial>>
    /\ UNCHANGED <<loop_vars, store_vars, scene_vars, pool_vars>>

\* the arms of the match on a RenderEvent that NativeBackend::poll_events
\* and State::update share
EventArm(b, event) ==
    CASE event.type = "FrameComplete" ->
            [b EXCEPT !.surface = SurfacePresent(@)]
      [] event.type = "ResizeComplete" ->
            [b EXCEPT !.surface = SurfaceApplyResize(@, event.config[1])]
      [] OTHER -> b

\* the Stopped arm of NativeBackend::poll_events once handle.join() has
\* returned Ok
StoppedArm(b) ==
    IF b.handle
    THEN [b EXCEPT !.handle = FALSE, !.dropped = TRUE, !.exited = TRUE,
                   !.surface = SurfaceDrop(@)]
    ELSE b

\* handle.join() returns when the render thread is gone
JoinReturnsAtOnce(b) == TRUE

JoinReturns(b) == b.handle => thread = "finished"

\* one turn of the while loop of NativeBackend::poll_events
NativePollEvent ==
    /\ control = "native"
    /\ ~backend.exited
    /\ ~send_failed
    /\ polled < Len(result_tx)
    /\ LET event == result_tx[polled + 1]
       IN  IF event.type = "Stopped"
           THEN /\ JoinReturns(backend)
                /\ backend' = StoppedArm(backend)
           ELSE backend' = EventArm(backend, event)
    /\ polled' = polled + 1
    /\ UNCHANGED <<control, thread, last_tick, send_failed, trial>>
    /\ UNCHANGED <<loop_vars, store_vars, scene_vars, pool_vars>>

\* State::resize: a window without width or height sends nothing
StateResizeSends(size) == size # ZeroSize

\* State::resize on WindowEvent::Resized
StateResize(size) ==
    /\ control = "state"
    /\ ControlLive
    /\ IF StateResizeSends(size)
       THEN /\ backend' = [backend EXCEPT
                              !.surface = SurfaceRequestResize(@)]
            /\ SendAll(<<Msg("Resize", size)>>)
       ELSE UNCHANGED <<backend, render_rx, sent>>
    /\ UNCHANGED <<control, thread, polled, last_tick, send_failed, trial>>
    /\ UNCHANGED <<senders_alive, result_tx, is_running, inbox, ready, pc,
                   config, pending_resize, camera, received, applied,
                   cycle_recv, cycle_applied, cycle_queued, frames,
                   last_resize, recv_disconnected>>
    /\ UNCHANGED <<store_vars, scene_vars, pool_vars>>

\* one turn of the while loop of State::update: the match on the event,
\* then request_frame, or Stop and surface.drop()
StateUpdate(texture, size) ==
    /\ control = "state"
    /\ ~backend.exited
    /\ sent < MaxControlCmds
    /\ polled < Len(result_tx)
    /\ polled' = polled + 1
    /\ LET event == result_tx[polled + 1]
           seen == IF event.type = "Stopped"
                   THEN [backend EXCEPT !.exited = TRUE]
                   ELSE EventArm(backend, event)
           open == pc \notin {"done", "failed"}
       IN  IF seen.is_running /\ seen.surface.state = "Configured" /\ open
           THEN LET arm == AcquireArms(seen.surface, texture, size,
                                       StateResizeSends(size))
                IN  /\ backend' = [seen EXCEPT !.surface = arm.surface]
                    /\ SendAll(<<Msg("UpdateCamera", InitialConfig)>>
                                  \o arm.commands)
                    /\ last_tick' = Some([result |-> texture,
                                          size |-> size,
                                          commands |-> arm.commands,
                                          terminated |->
                                              \/ backend'.exited
                                              \/ ~backend'.is_running])
           ELSE IF ~seen.is_running /\ open
           THEN /\ backend' = [seen EXCEPT !.surface = SurfaceDrop(@),
                                           !.dropped = TRUE]
                /\ SendAll(<<Msg("Stop", InitialConfig)>>)
                /\ UNCHANGED last_tick
           ELSE /\ backend' = seen
                /\ UNCHANGED <<render_rx, sent, last_tick>>
    /\ UNCHANGED <<control, thread, send_failed, trial>>
    /\ UNCHANGED <<senders_alive, result_tx, is_running, inbox, ready, pc,
                   config, pending_resize, camera, received, applied,
                   cycle_recv, cycle_applied, cycle_queued, frames,
                   last_resize, recv_disconnected>>
    /\ UNCHANGED <<store_vars, scene_vars, pool_vars>>

RequestFrame == \E texture \in TextureResults : \E size \in WindowSizes :
                    NativeRequestFrame(texture, size)

WindowResized == \E size \in WindowSizes : StateResize(size)

UpdateState == \E texture \in TextureResults : \E size \in WindowSizes :
                   StateUpdate(texture, size)

\* either control side with the render thread it feeds
ControlInit ==
    /\ LoopInit
    /\ StoreIdle
    /\ SceneIdle
    /\ PoolIdle
    /\ control \in {"native", "state"}
    /\ backend = BackendNew
    /\ thread = "running"
    /\ polled = 0
    /\ last_tick = None
    /\ send_failed = FALSE
    /\ trial = None

ControlNext == RequestFrame \/ ControlExit \/ NativePollEvent
               \/ WindowResized \/ UpdateState \/ ThreadReturn
               \/ LoopEnter \/ LoopExit \/ Recv \/ TryRecv \/ DrainEnd
               \/ ApplyReady \/ CycleEnd

ControlSpec == ControlInit /\ [][ControlNext]_vars

ResizeWindow == \E size \in Configs : NativeResize(size)

\* a NativeBackend with the render thread it spawned
NativeInit ==
    /\ ControlInit
    /\ control = "native"

NativeNext == RequestFrame \/ ResizeWindow \/ NativeUpdateCamera
              \/ ControlExit \/ NativePollEvent \/ ThreadReturn
              \/ LoopEnter \/ LoopExit \/ Recv \/ TryRecv \/ DrainEnd
              \/ ApplyReady \/ CycleEnd

NativeSpec == NativeInit /\ [][NativeNext]_vars

\* the render thread runs, its closure returns once run() has, and the
\* event loop of the control side keeps calling poll_events
NativeFairSpec ==
    /\ NativeInit
    /\ [][NativeNext]_vars
    /\ WF_vars(RenderLoop)
    /\ WF_vars(ThreadReturn)
    /\ WF_vars(NativePollEvent)

(* ------------ RenderCore::run_once against a cycle of run -------------- *)

\* the RenderCore that RenderCore::new builds
CoreNew ==
    [is_running |-> TRUE, config |-> InitialConfig, pending_resize |-> None,
     camera |-> 0, result_tx |-> <<>>, error |-> FALSE]

\* self.handle_command(command)? for each command of a sequence: the core
\* afterwards and the commands applied; an Err ends the sequence
RECURSIVE HandleAll(_, _, _)
HandleAll(core, commands, done) ==
    IF commands = <<>> \/ core.error THEN [core |-> core, applied |-> done]
    ELSE HandleAll(HandleCommand(core, Head(commands)), Tail(commands),
                   Append(done, Head(commands)))

\* RenderCore::run_once: while let Ok(command) = try_recv() { handle }
RunOnce(core, queue) == HandleAll(core, queue, <<>>)

\* the recv / try_recv loop of one cycle of run: every command goes through
\* inbox.receive, and what it hands back is handled at once
RECURSIVE Drain(_, _, _, _)
Drain(core, box, queue, done) ==
    IF queue = <<>> \/ core.error
    THEN [core |-> core, inbox |-> box, applied |-> done]
    ELSE LET got == InboxReceive(box, Head(queue))
         IN  IF got.other # None
             THEN Drain(HandleCommand(core, got.other[1]), got.inbox,
                        Tail(queue), Append(done, got.other[1]))
             ELSE Drain(core, got.inbox, Tail(queue), done)

\* one cycle of RenderCore::run on the commands queued, and the Stopped
\* that run sends when the cycle leaves is_running false
RunCycle(core, queue) ==
    LET drained == Drain(core, EmptyInbox, queue, <<>>)
        taken == HandleAll(drained.core, TakeReady(drained.inbox),
                           drained.applied)
    IN  IF ~taken.core.error /\ ~taken.core.is_running
        THEN [taken EXCEPT !.core.result_tx =
                 Append(@, Event("Stopped", None))]
        ELSE taken

\* the commands a queue can hold
Shapes ==
    {Command(kind, 0, cfg, fails) :
        kind \in Kinds, cfg \in Configs \cup {InitialConfig},
        fails \in BOOLEAN} \cap
    {c \in [kind : Kinds, id : {0}, config : Configs \cup {InitialConfig},
            fails : BOOLEAN] :
        /\ (c.kind = "Resize") = (c.config # InitialConfig)
        /\ c.fails => c.kind = "LoadAsset"}

Queues ==
    UNION {{[i \in 1..n |-> [shapes[i] EXCEPT !.id = i]] :
               shapes \in [1..n -> Shapes]} : n \in 1..MaxCmds}

\* a queue of commands waits for a drain
TrialInit ==
    /\ LoopInit
    /\ StoreIdle
    /\ SceneIdle
    /\ PoolIdle
    /\ control = "native"
    /\ backend = BackendNew
    /\ thread = "running"
    /\ polled = 0
    /\ last_tick = None
    /\ send_failed = FALSE
    /\ \E queue \in Queues :
          trial = Some([queue |-> queue, once |-> None, cycle |-> None])

\* the queue is drained by run_once
TrialRunOnce ==
    /\ trial # None
    /\ trial[1].once = None
    /\ trial' = Some([trial[1] EXCEPT
                         !.once = Some(RunOnce(CoreNew, trial[1].queue))])
    /\ UNCHANGED <<control, backend, thread, polled, last_tick, send_failed>>
    /\ UNCHANGED <<loop_vars, store_vars, scene_vars, pool_vars>>

\* the queue is drained by one cycle of run
TrialRunCycle ==
    /\ trial # None
    /\ trial[1].cycle = None
    /\ trial' = Some([trial[1] EXCEPT
                         !.cycle = Some(RunCycle(CoreNew, trial[1].queue))])
    /\ UNCHANGED <<control, backend, thread, polled, last_tick, send_failed>>
    /\ UNCHANGED <<loop_vars, store_vars, scene_vars, pool_vars>>

TrialNext == TrialRunOnce \/ TrialRunCycle

TrialSpec == TrialInit /\ [][TrialNext]_vars

(* ------------------ WorkerPool and its web workers --------------------- *)

\* worker.post_message(&message) of assign_task: the task message joins
\* the messages posted to the worker of that id
Post(workers, worker_id, task) ==
    [workers EXCEPT ![worker_id + 1].mailbox = Append(@, task)]

\* WorkerPool::submit of the next task
Submit ==
    /\ submitted < MaxTasks
    /\ submitted' = submitted + 1
    /\ LET task == submitted + 1
           found == FindReady(worker_pool.workers)
           queued == [worker_pool EXCEPT !.queue = Append(@, task)]
       IN  IF found # None
           THEN /\ worker_pool' = AssignTask(worker_pool, found[1], task)
                /\ last_assign' =
                      Some(Assignment(worker_pool, found[1], task))
                /\ web_workers' = Post(web_workers, found[1], task)
           ELSE IF Len(queued.workers) < queued.capacity
                THEN /\ worker_pool' =
                          [queued EXCEPT !.workers = Append(@, "Busy")]
                     /\ web_workers' = Append(web_workers, WebWorkerNew)
                     /\ UNCHANGED last_assign
                ELSE /\ worker_pool' = queued
                     /\ UNCHANGED <<web_workers, last_assign>>
    /\ UNCHANGED completed
    /\ UNCHANGED <<loop_vars, store_vars, scene_vars, control_vars>>

\* init_worker in a web worker: WorkerRuntime::run sets onmessage and posts
\* the handshake
WorkerRun ==
    \E id \in 0..(Len(web_workers) - 1) :
        /\ ~web_workers[id + 1].started
        /\ web_workers' =
              [web_workers EXCEPT ![id + 1].started = TRUE,
                                  ![id + 1].outbox = Append(@, ReadyMessage)]
        /\ UNCHANGED <<worker_pool, completed, last_assign, submitted>>
        /\ UNCHANGED <<loop_vars, store_vars, scene_vars, control_vars>>

\* onmessage of WorkerRuntime::run: the handler of the task spawns its run
WorkerOnMessage ==
    \E id \in 0..(Len(web_workers) - 1) :
        /\ web_workers[id + 1].started
        /\ web_workers[id + 1].mailbox # <<>>
        /\ web_workers' =
              [web_workers EXCEPT
                  ![id + 1].mailbox = Tail(@),
                  ![id + 1].running =
                      @ \cup {Head(web_workers[id + 1].mailbox)}]
        /\ UNCHANGED <<worker_pool, completed, last_assign, submitted>>
        /\ UNCHANGED <<loop_vars, store_vars, scene_vars, control_vars>>

\* WorkerTask::run comes to its end and posts the buffer
TaskRun ==
    \E id \in 0..(Len(web_workers) - 1) :
        \E task \in web_workers[id + 1].running :
            /\ web_workers' =
                  [web_workers EXCEPT
                      ![id + 1].running = @ \ {task},
                      ![id + 1].outbox = Append(@, ResultMessage(task))]
            /\ UNCHANGED <<worker_pool, completed, last_assign, submitted>>
            /\ UNCHANGED <<loop_vars, store_vars, scene_vars, control_vars>>

\* WorkerTask::run panics (an unwrap on a failed load, todo!()): nothing is
\* posted for the task
TaskFails ==
    \E id \in 0..(Len(web_workers) - 1) :
        \E task \in web_workers[id + 1].running :
            /\ web_workers' =
                  [web_workers EXCEPT ![id + 1].running = @ \ {task}]
            /\ UNCHANGED <<worker_pool, completed, last_assign, submitted>>
            /\ UNCHANGED <<loop_vars, store_vars, scene_vars, control_vars>>

\* on_message of Worker::new: the oldest message of a worker reaches
\* WorkerPoolInner::handle_message; on_complete sends one LoadAsset
OnMessage ==
    \E id \in 0..(Len(web_workers) - 1) :
        /\ web_workers[id + 1].outbox # <<>>
        /\ LET data == Head(web_workers[id + 1].outbox)
               handled == HandleMessage(worker_pool, id, data)
               taken == [web_workers EXCEPT ![id + 1].outbox = Tail(@)]
           IN  /\ worker_pool' = handled.pool
               /\ IF handled.assigned # None
                  THEN /\ web_workers' =
                            Post(taken, handled.assigned[1].worker_id,
                                 handled.assigned[1].task)
                       /\ last_assign' = handled.assigned
                  ELSE /\ web_workers' = taken
                       /\ UNCHANGED last_assign
               /\ IF handled.completed # None
                  THEN /\ completed' =
                            Append(completed,
                                   [task |-> handled.completed[1],
                                    result_of |-> data.result_of,
                                    worker_id |-> id])
                       /\ SendAll(<<Msg("LoadAsset", InitialConfig)>>)
                  ELSE UNCHANGED <<completed, render_rx, sent>>
        /\ UNCHANGED submitted
        /\ UNCHANGED <<senders_alive, result_tx, is_running, inbox, ready, pc,
                       config, pending_resize, camera, received, applied,
                       cycle_recv, cycle_applied, cycle_queued, frames,
                       last_resize, recv_disconnected>>
        /\ UNCHANGED <<store_vars, scene_vars, control_vars>>

\* a pool of any capacity up to MaxWorkers before its first submit
WorkerPoolInit ==
    /\ LoopInit
    /\ StoreIdle
    /\ SceneIdle
    /\ ControlIdle
    /\ \E capacity \in 1..MaxWorkers : worker_pool = WorkerPoolNew(capacity)
    /\ web_workers = <<>>
    /\ completed = <<>>
    /\ last_assign = None
    /\ submitted = 0

WorkerPoolNext == Submit \/ WorkerRun \/ WorkerOnMessage \/ TaskRun
                  \/ TaskFails \/ OnMessage

WorkerPoolSpec == WorkerPoolInit /\ [][WorkerPoolNext]_vars

(* ------------------------ properties of the stores -------------------- *)

\* the handle observed for key still resolves to the value last written
\* for key, and get_index still gives that handle
Resolves(store, observed, key) ==
    observed[key] # None =>
        /\ GetById(store, observed[key][1].id) = Some(observed[key][1].value)
        /\ GetIndex(store, key) = Some(observed[key][1].id)

\* C7: handle stability. The ComponentId returned by add(e, v) resolves
\* through get_by_id to the record last written for e (by add or set), and
\* get_index(e) returns that id, in every state until e is removed, whatever
\* is added, removed or set for other entities; for the ComponentStore and
\* for the HostComponentStore.
C7_HandleStability ==
    \A key \in Keys :
        /\ Resolves(transforms, handle_of, key)
        /\ Resolves(nodes, host_handle_of, key)
        /\ handle_of[key] # None <=> key \in DOMAIN transforms.index_map
        /\ host_handle_of[key] # None <=> key \in DOMAIN nodes.index_map

\* the last add made the store grow, two entities added before it are live
\* and a third one got the new slot
C7_Witness ==
    /\ grown_from # None
    /\ Cardinality(DOMAIN grown_from[1].index_map) >= 2
    /\ \E key \in Keys : /\ handle_of[key] # None
                          /\ key \notin DOMAIN grown_from[1].index_map

\* C8: growth correctness. When add made the store grow, the capacity has
\* doubled, the buffer is a new one of that capacity, every record of the
\* dense array before the growth reads back by handle with the same value,
\* every entity keeps its handle, and the new buffer holds the whole dense
\* array, the records written before the growth and the new one.
C8_GrowthCorrect ==
    grown_from # None =>
        LET before == grown_from[1]
        IN  /\ transforms.capacity = 2 * before.capacity
            /\ transforms.buffer.serial # before.buffer.serial
            /\ Len(transforms.buffer.data) = transforms.capacity
            /\ ~transforms.buffer.fault
            /\ transforms.is_dirty
            /\ Len(transforms.components) = Len(before.components) + 1
            /\ \A id \in 0..(Len(before.components) - 1) :
                  GetById(transforms, id) = GetById(before, id)
            /\ \A key \in DOMAIN before.index_map :
                  GetIndex(transforms, key) = GetIndex(before, key)
            /\ \A i \in 1..Len(transforms.components) :
                  transforms.buffer.data[i] = transforms.components[i]

\* the last add made a store of capacity 2 or more grow
C8_Witness ==
    /\ grown_from # None
    /\ Len(grown_from[1].components) >= 2
    /\ transforms.capacity = 2 * Len(grown_from[1].components)

Occurrences(seq, x) == Cardinality({j \in 1..Len(seq) : seq[j] = x})

Partitioned(store) ==
    /\ \A key \in DOMAIN store.index_map :
          store.index_map[key] < Len(store.components)
    /\ \A k1, k2 \in DOMAIN store.index_map :
          k1 # k2 => store.index_map[k1] # store.index_map[k2]
    /\ \A j \in 1..Len(store.free_indices) :
          store.free_indices[j] < Len(store.components)
    /\ \A slot \in 0..(Len(store.components) - 1) :
          Cardinality({key \in DOMAIN store.index_map :
                          store.index_map[key] = slot})
            + Occurrences(store.free_indices, slot) = 1

\* C9: slot partition. After any sequence of add and remove, every live
\* entity maps to one slot below the length of the dense array, no two live
\* entities map to the same slot, and every slot below that length is
\* either the slot of exactly one live entity or occurs exactly once in
\* the free list; for the ComponentStore and for the HostComponentStore.
C9_SlotPartition == Partitioned(transforms) /\ Partitioned(nodes)

\* a store with two free slots and a live slot below the one freed last
C9_Witness ==
    /\ Len(transforms.free_indices) >= 2
    /\ DOMAIN transforms.index_map # {}
    /\ \E key \in DOMAIN transforms.index_map :
          transforms.index_map[key] < Last(transforms.free_indices)

\* C10: relation idempotence. get_mapping(a) is the b of the last
\* link(a, b) for every index a linked so far, so link(a, b) followed by
\* link(a, b') leaves b' and changes the mapping of no other index; the last
\* link changed no entry but its own, and when it linked a pair that was
\* mapped already it left the whole mapping as it was.
C10_RelinkOverwrites ==
    /\ \A a \in Indices :
          linked[a] # None => GetMapping(node_transform_index, a) = linked[a]
    /\ last_link # None =>
          LET last == last_link[1]
          IN  /\ \A i \in 1..Len(last.before) :
                    i # last.a + 1 =>
                        node_transform_index.mapping[i] = last.before[i]
              /\ (last.a < Len(last.before) /\ last.before[last.a + 1] = last.b)
                    => node_transform_index.mapping = last.before

\* the last link overwrote the mapping of an index linked before to another
\* value, while another index is linked too
C10_Witness ==
    /\ last_link # None
    /\ last_link[1].a < Len(last_link[1].before)
    /\ last_link[1].before[last_link[1].a + 1] # 0
    /\ last_link[1].before[last_link[1].a + 1] # last_link[1].b
    /\ \E a \in Indices : /\ a # last_link[1].a
                           /\ linked[a] # None
                           /\ linked[a] # Some(0)

\* C11: get_mapping(a) is none only if a was never linked. Once link(a, b)
\* was called get_mapping(a) gives a value in every later state, the b of
\* the last link of a, and removing the record behind b from the transforms
\* store neither turns that mapping into none nor changes it.
C11_LinkedStaysMapped ==
    \A a \in Indices :
        /\ GetMapping(node_transform_index, a) = None => linked[a] = None
        /\ linked[a] # None =>
              /\ GetMapping(node_transform_index, a) # None
              /\ GetMapping(node_transform_index, a)[1] = linked[a][1]

\* an index is linked to a slot of the transforms store whose record was
\* removed after the link: the slot is on the free list, and no entity
\* maps to it
C11_Witness ==
    \E a \in Indices :
        /\ linked[a] # None
        /\ linked[a][1] # 0
        /\ Occurrences(transforms.free_indices, linked[a][1]) = 1
        /\ \A key \in DOMAIN transforms.index_map :
              transforms.index_map[key] # linked[a][1]

(* ------------------------ properties of the scene --------------------- *)

\* C12: no stale binding at draw time. Whatever add_node, add_light,
\* UpdateTransform and UpdateLight did before a frame, when the frame draws
\* the scene the bind group refers to the current buffer of the transforms,
\* the normals, the lights and the light-to-transform relation: a growth
\* that replaced a buffer is followed by a rebuild of the bind group before
\* the next draw.
C12_NoStaleBinding ==
    last_draw # None => last_draw[1].bind_group = last_draw[1].buffers

\* a frame was drawn whose bind group was stale when the frame began: the
\* lights store and the transforms store have grown, and the sync of the
\* frame left a store polled later in the chain dirty
C12_Witness ==
    /\ last_draw # None
    /\ last_draw[1].stale_before
    /\ scene.lights.buffer.serial > 0
    /\ scene.transforms.buffer.serial > 0
    /\ scene.bind_group = CreateBindGroup(scene)
    /\ \E i \in 1..Len(Polled) : scene[Polled[i]].is_dirty

Sorted(batches) ==
    \A i, j \in 1..Len(batches) :
        i < j => KeyLess(batches[i].key, batches[j].key)

\* C13: batch determinism. The batches are sorted by (pipeline id,
\* renderable handle) with no key twice, and when build_render_batches ran
\* twice in a row on the same stores the second run left the same sequence
\* of keys and counts and, in the instance range of each batch, the same
\* instance records as the first, whatever order the hash maps iterate in.
C13_BatchDeterminism ==
    /\ Sorted(scene.render_batches)
    /\ (last_build # None /\ last_build[1].consecutive) =>
          last_build[1].after = last_build[1].before

\* the live nodes that carry the renderable handle and whose transform
\* and normal mappings resolve
NodesOf(s, handle) ==
    {entity \in DOMAIN s.nodes.index_map :
        /\ s.nodes.components[s.nodes.index_map[entity] + 1] = handle
        /\ GetMapping(s.node_transform_index, s.nodes.index_map[entity])
              # None
        /\ GetMapping(s.node_normal_index, s.nodes.index_map[entity])
              # None}

BatchesOf(s, handle) ==
    SelectSeq(s.render_batches, LAMBDA batch : batch.key.render_id = handle)

\* for each renderable with live nodes one batch, keyed by the pipeline id
\* of its kind and counting its nodes, and no batch for any other handle
Grouped(s) ==
    /\ \A handle \in DOMAIN s.renderables :
          IF NodesOf(s, handle) # {}
          THEN /\ Len(BatchesOf(s, handle)) = 1
               /\ BatchesOf(s, handle)[1].key
                     = BatchKey(s.renderables[handle], handle)
               /\ BatchesOf(s, handle)[1].instance_count
                     = Cardinality(NodesOf(s, handle))
          ELSE BatchesOf(s, handle) = <<>>
    /\ \A i \in 1..Len(s.render_batches) :
          s.render_batches[i].key.render_id \in DOMAIN s.renderables

\* C14: batch grouping. After any sequence of add_node calls the batches
\* hold, for each renderable with n >= 1 live nodes, exactly one batch keyed
\* by (pipeline id of the kind of the renderable, renderable handle) with
\* instance_count = n, and no batch for a renderable without a node.
C14_BatchGrouping == Grouped(scene)

\* all entities were spawned with one renderable, one of them twice, and
\* the batch of the renderable counts them all
C14_Witness ==
    /\ Len(scene.render_batches) = 1
    /\ scene.render_batches[1].instance_count = MaxEntities
    /\ scene_ops > MaxEntities

RECURSIVE SumCounts(_)
SumCounts(batches) ==
    IF batches = <<>> THEN 0
    ELSE Head(batches).instance_count + SumCounts(Tail(batches))

\* C15: after nodes were removed from the node store and the batches were
\* rebuilt, each batch counts the nodes of its renderable that are still
\* live, and the cursor of the instance pool is the number of instance
\* records of the batches just built.
C15_CursorCountsLive ==
    (last_build # None /\ last_build[1].caught_up /\ built) =>
        /\ Grouped(scene)
        /\ scene.instance_pool.cursor = SumCounts(scene.render_batches)

\* a step that changes the capacity of the transforms store doubles it,
\* appends the record of a new entity to a full dense array with no free
\* slot, and leaves the store dirty with a new buffer
Doubling ==
    /\ transforms'.capacity = 2 * transforms.capacity
    /\ Len(transforms.components) = transforms.capacity
    /\ transforms.free_indices = <<>>
    /\ Len(transforms'.components) = Len(transforms.components) + 1
    /\ \E key \in Keys :
          /\ key \notin DOMAIN transforms.index_map
          /\ key \in DOMAIN transforms'.index_map
          /\ transforms'.index_map[key] = Len(transforms.components)
    /\ transforms'.buffer.serial # transforms.buffer.serial
    /\ transforms'.is_dirty

\* a step that keeps the capacity keeps the buffer object and the dirty flag
Settled ==
    /\ transforms'.buffer.serial = transforms.buffer.serial
    /\ transforms'.is_dirty = transforms.is_dirty

\* C19: ComponentStore growth invariant. The dense array is never longer
\* than the capacity; the capacity changes only by doubling, in an add of a
\* new entity that appends while the length equals the capacity, and the
\* doubling sets the dirty flag; an add that overwrites or takes a free slot,
\* a remove and a set leave capacity, buffer object and dirty flag as they
\* were.
C19_GrowthInvariant ==
    /\ [](Len(transforms.components) <= transforms.capacity)
    /\ [][IF transforms'.capacity # transforms.capacity
           THEN Doubling ELSE Settled]_vars

\* the store doubled a second time
C19_Witness ==
    /\ grown_from # None
    /\ grown_from[1].buffer.serial # 0
    /\ transforms.capacity = 2 * grown_from[1].capacity
    /\ transforms.is_dirty
    /\ Len(transforms.components) = grown_from[1].capacity + 1

\* C20: RelationStore growth never fails the caller. After link(a, b), for
\* any index a, the mapping holds a.index + 1 entries at least and no more
\* than the capacity, so the writes of link fit in the buffer; a store that
\* grew is dirty and its buffer holds the whole mapping.
C20_LinkFits ==
    last_link # None =>
        /\ Len(node_transform_index.mapping) >= last_link[1].a + 1
        /\ Len(node_transform_index.mapping) <= node_transform_index.capacity
        /\ ~node_transform_index.buffer.fault
        /\ node_transform_index.buffer.serial # 0 =>
              /\ node_transform_index.is_dirty
              /\ SubSeq(node_transform_index.buffer.data, 1,
                        Len(node_transform_index.mapping)) =
                     node_transform_index.mapping

(* --------------------- properties of the control side ----------------- *)

StoppedPolled ==
    \E i \in 1..polled : result_tx[i].type = "Stopped"

\* C16: shutdown ordering of the threaded deployment. NativeBackend calls
\* surface.drop() only after it has taken Stopped from the event channel
\* and joined the render thread: whenever the surface is dropped the render
\* thread is gone, so the surface outlives the last command the thread
\* serviced.
C16_SurfaceOutlivesThread ==
    (control = "native" /\ backend.dropped) =>
        /\ thread = "finished"
        /\ pc = "done"
        /\ StoppedPolled
        /\ ~backend.handle

\* NativeBackend has dropped the surface after the render thread rendered
\* a frame and was told to stop
C16_Witness ==
    /\ control = "native"
    /\ backend.dropped
    /\ backend.exited
    /\ frames # <<>>

C18_OnceMatchesCycle ==
    (trial # None /\ trial[1].once # None /\ trial[1].cycle # None) =>
        /\ trial[1].once[1].applied = trial[1].cycle[1].applied
        /\ trial[1].once[1].core.result_tx = trial[1].cycle[1].core.result_tx

(* ------------------- properties of the command pipeline --------------- *)

IsStopped(e) == e.type = "Stopped"

Ids(s) == {s[i].id : i \in 1..Len(s)}

\* C1: latest-wins coalescing. In every drain cycle at most one command of
\* each of the kinds Resize, UpdateCamera, RenderFrame is applied (so at most
\* one frame is rendered); and at the end of a drain cycle that started with
\* K >= 1 commands of such a kind queued, all K were dequeued in the cycle,
\* exactly one command of the kind was applied, and it is the one enqueued
\* last among the commands of the kind dequeued in the cycle.
C1_LatestWins ==
    \A k \in CoalescedKinds :
        /\ Len(SelectKind(cycle_applied, k)) <= 1
        /\ (pc = "test" /\ SelectKind(cycle_queued, k) # <<>>) =>
              /\ Ids(SelectKind(cycle_queued, k))
                    \subseteq Ids(SelectKind(cycle_recv, k))
              /\ SelectKind(cycle_applied, k)
                    = <<Last(SelectKind(cycle_recv, k))>>
              /\ \A i \in Ids(SelectKind(cycle_recv, k)) :
                    i <= SelectKind(cycle_applied, k)[1].id

\* a drain cycle has ended that started with two or more commands of one
\* coalesced kind queued, and one of them was applied
C1_Witness ==
    /\ pc = "test"
    /\ \E k \in CoalescedKinds :
          /\ Len(SelectKind(cycle_queued, k)) >= 2
          /\ Len(SelectKind(cycle_applied, k)) = 1

\* C2: ordered commands are never dropped or reordered. The ordered commands
\* applied so far are exactly the ordered commands dequeued so far, each
\* once and in the order of dequeueing, which is the order of enqueueing
\* (ids grow along the sequence), whatever coalesced commands surround them.
C2_OrderedAllApplied ==
    /\ Ordered(applied) = Ordered(received)
    /\ \A i, j \in 1..Len(Ordered(applied)) :
          i < j => Ordered(applied)[i].id < Ordered(applied)[j].id
    /\ \A i, j \in 1..Len(received) : i < j => received[i].id < received[j].id

\* two ordered commands were applied with a coalesced command enqueued
\* between them, which was dequeued and not applied
C2_Witness ==
    \E i, j \in 1..Len(Ordered(applied)) :
        \E m \in 1..Len(received) :
            /\ i < j
            /\ received[m].kind \in CoalescedKinds
            /\ Ordered(applied)[i].id < received[m].id
            /\ received[m].id < Ordered(applied)[j].id
            /\ received[m].id \notin Ids(applied)

Rank(c) ==
    CASE c.kind = "Resize" -> 1
      [] c.kind = "UpdateCamera" -> 2
      [] c.kind = "RenderFrame" -> 3
      [] OTHER -> 0

\* C3: within one drain cycle every ordered command is applied before any
\* coalesced command, and the coalesced commands are applied in the order
\* Resize, UpdateCamera, RenderFrame, whatever the order of enqueueing.
C3_FixedPriority ==
    \A i, j \in 1..Len(cycle_applied) :
        i < j => /\ Rank(cycle_applied[i]) <= Rank(cycle_applied[j])
                 /\ Rank(cycle_applied[i]) = Rank(cycle_applied[j])
                       => IsOrdered(cycle_applied[i])

\* a cycle applied a Resize before a RenderFrame that was enqueued earlier,
\* and an ordered command before a coalesced one that was enqueued earlier
C3_Witness ==
    /\ pc = "test"
    /\ \E i, j \in 1..Len(cycle_applied) :
          /\ i < j
          /\ cycle_applied[i].kind = "Resize"
          /\ cycle_applied[j].kind = "RenderFrame"
          /\ cycle_applied[j].id < cycle_applied[i].id
    /\ \E i, j \in 1..Len(cycle_applied) :
          /\ i < j
          /\ IsOrdered(cycle_applied[i])
          /\ ~IsOrdered(cycle_applied[j])
          /\ cycle_applied[j].id < cycle_applied[i].id

\* C4: a frame rendered after a Resize was applied is rendered with the
\* context configuration equal to the one of the latest applied Resize.
C4_FrameUsesLatestResize ==
    \A i \in 1..Len(frames) :
        frames[i].latest # None => frames[i].config = frames[i].latest[1]

StopQueued == \E i \in 1..Len(render_rx) : render_rx[i].kind = "Stop"

\* C5: Stop is terminal. Once Stop is on the command channel, run() ends:
\* with Stopped sent, unless a handler returned an error. Stopped is sent
\* at most once, it is on the event channel exactly when run() has returned
\* Ok, it is then the last event, and nothing is sent or done after it.
C5_StopTerminal ==
    /\ [](StopQueued => <>(pc = "done" \/ pc = "failed"))
    /\ [](Len(SelectSeq(result_tx, IsStopped)) <= 1)
    /\ [](pc = "done" <=> (result_tx # <<>> /\ IsStopped(Last(result_tx))))
    /\ [](pc = "failed" => \E i \in 1..Len(applied) : applied[i].fails)
    /\ [][pc = "done" => (pc' = "done" /\ result_tx' = result_tx)]_vars

\* run() has returned after Stop, with a frame completed in its last cycle
C5_Witness ==
    /\ pc = "done"
    /\ Len(result_tx) >= 2
    /\ result_tx[Len(result_tx) - 1].type = "FrameComplete"
    /\ \E i \in 1..Len(applied) : applied[i].kind = "Stop"

\* C6: a drain cycle whose recv() reported the disconnection of the command
\* channel leaves the render loop stopped, as a Stop command would.
C6_DisconnectStops ==
    (pc = "test" /\ recv_disconnected) => ~is_running

(* -------------------- further properties of the scene ------------------ *)

\* the entities whose record is slot 0 of a store
InSlotZero(store) == {e \in DOMAIN store.index_map : store.index_map[e] = 0}

\* C21: fallback slot. An unset entry of a relation is 0, and slot 0 of the
\* transforms store and of the normals store is a fallback record: it is
\* not the record of a spawned entity, and once a relation has entries the
\* slot exists.
C21_FallbackSlot ==
    /\ InSlotZero(scene.transforms) = {}
    /\ InSlotZero(scene.normals) = {}
    /\ scene.node_transform_index.mapping # <<>> =>
          /\ scene.transforms.components # <<>>
          /\ scene.normals.components # <<>>

\* the live lights of kind Point
PointLights(s) ==
    {e \in DOMAIN s.lights.index_map :
        s.lights.components[s.lights.index_map[e] + 1] = "point"}

\* the batches of the "light" pipeline
LightBatches(s) ==
    SelectSeq(s.render_batches, LAMBDA b : b.key.pipeline_id = "light")

\* the instances a rebuild collects for the debug cube, whatever the order
\* of the loops: one per live point light, with the transform index the
\* relation gives for the light
DebugInstances(s) ==
    \A node_order \in Orders(DOMAIN s.nodes.index_map) :
    \A light_order \in Orders(DOMAIN s.lights.index_map) :
        LET batches == CollectBatches(s, node_order, light_order)
            key == BatchKey("light", DebugId)
        IN  /\ (key \in DOMAIN batches) = (PointLights(s) # {})
            /\ key \in DOMAIN batches =>
                  /\ Len(batches[key]) = Cardinality(PointLights(s))
                  /\ Range(batches[key]) =
                        {Instance(GetMapping(s.lights_transform_index,
                                             s.lights.index_map[e])[1], 0) :
                            e \in PointLights(s)}

\* C22 as stated: a rebuild makes one batch for every live light of kind
\* Point and none for the other kinds, each with the debug cube as
\* renderable.
C22_BatchPerPointLight ==
    built =>
        /\ Len(LightBatches(scene)) = Cardinality(PointLights(scene))
        /\ \A i \in 1..Len(LightBatches(scene)) :
              LightBatches(scene)[i].key = BatchKey("light", DebugId)

\* C22 amended: a rebuild makes one batch for the debug cube when there is
\* a live light of kind Point and none otherwise; the batch has one
\* instance for every live point light, with the transform index that
\* lights_transform_index maps the light to, and none for a Directional or
\* Spot light.
C22_InstancePerPointLight ==
    built =>
        /\ Len(LightBatches(scene)) = IF PointLights(scene) = {} THEN 0 ELSE 1
        /\ \A i \in 1..Len(LightBatches(scene)) :
              /\ LightBatches(scene)[i].key = BatchKey("light", DebugId)
              /\ LightBatches(scene)[i].instance_count =
                    Cardinality(PointLights(scene))
        /\ DebugInstances(scene)

\* a rebuild found a point light for every entity and made one batch of them
C22_Witness ==
    /\ built
    /\ Cardinality(PointLights(scene)) = MaxEntities
    /\ Len(LightBatches(scene)) = 1
    /\ scene_ops > MaxEntities + 1

\* the cells of the instance pool in the range of a batch
Cells(batch) ==
    batch.instance_offset ..
        (batch.instance_offset + batch.instance_count - 1)

\* C23: instance ranges are never read stale. After a rebuild the ranges of
\* distinct batches do not overlap, and the range of each batch holds the
\* instance records the rebuild collected for the key of the batch, also
\* when the cursor wrapped to 0 during the rebuild.
C23_RangesFresh ==
    built =>
        /\ \A i, j \in 1..Len(scene.render_batches) :
              i # j => Cells(scene.render_batches[i])
                          \cap Cells(scene.render_batches[j]) = {}
        /\ \E node_order \in Orders(DOMAIN scene.nodes.index_map) :
           \E light_order \in Orders(DOMAIN scene.lights.index_map) :
              LET batches == CollectBatches(scene, node_order, light_order)
              IN  \A i \in 1..Len(scene.render_batches) :
                     /\ scene.render_batches[i].key \in DOMAIN batches
                     /\ BatchView(scene)[i].records =
                           Range(batches[scene.render_batches[i].key])

(* -------------- further properties of the command pipeline ------------- *)

\* a command whose handler returned an error has been applied
ErrorReturned == \E i \in 1..Len(applied) : applied[i].fails

\* how run() stands once a handler has returned an error: it has returned,
\* the failing command is the last one applied, and the events are those of
\* the commands before it, without Stopped
EndedByError ==
    /\ pc = "failed"
    /\ Last(applied).fails
    /\ \A i \in 1..(Len(applied) - 1) : ~applied[i].fails
    /\ SelectSeq(result_tx, IsStopped) = <<>>
    /\ Len(result_tx) =
          Len(SelectSeq(SubSeq(applied, 1, Len(applied) - 1),
                        LAMBDA c : c.kind \in
                            {"RenderFrame", "LoadAsset", "Resize"}))

\* C24: fatal errors end the render loop silently. When a handler returns
\* an error, run() returns at once: no command is applied afterwards,
\* neither one queued behind the failing one nor one held in the Inbox, no
\* Stopped and no other event is sent, and the loop does not start again.
C24_FatalErrorEndsLoop ==
    /\ [](ErrorReturned => EndedByError)
    /\ [][pc = "failed" =>
             /\ pc' = "failed"
             /\ applied' = applied
             /\ received' = received
             /\ result_tx' = result_tx
             /\ frames' = frames
             /\ inbox' = inbox
             /\ render_rx' = render_rx]_vars

\* run() has returned with an error while a RenderFrame was held in the
\* Inbox and a command was queued behind the failing one
C24_Witness ==
    /\ pc = "failed"
    /\ inbox.frame # None
    /\ render_rx # <<>>
    /\ result_tx = <<>>

\* the record of entity e in a store
RecordOf(store, e) == store.components[store.index_map[e] + 1]

\* C25: normal-matrix consistency. For every live node the record in the
\* normals store is the inverse-transpose of the record the transforms
\* store holds for the entity, after add_node and after every later
\* UpdateTransform.
C25_NormalConsistency ==
    \A e \in DOMAIN scene.nodes.index_map :
        /\ e \in DOMAIN scene.transforms.index_map
        /\ e \in DOMAIN scene.normals.index_map
        /\ RecordOf(scene.normals, e) =
              NormalUniform(RecordOf(scene.transforms, e))

IsStop(c) == c.kind = "Stop"

\* the commands of a log from its first Stop on
FromStop(log) ==
    LET first == CHOOSE i \in 1..Len(log) :
                     /\ IsStop(log[i])
                     /\ \A j \in 1..(i - 1) : ~IsStop(log[j])
    IN  SubSeq(log, first, Len(log))

\* C26 as stated: once Stop has been applied no further command is
\* applied, so Stop is the last command of the log of applied commands and
\* no frame is rendered after it.
C26_NothingAfterStop ==
    \A i \in 1..Len(applied) : IsStop(applied[i]) => i = Len(applied)

\* C26 amended: the drain cycle in which Stop is applied is the last one.
\* What is applied from Stop on, ordered commands queued behind it and the
\* commands held in the Inbox, is applied in that cycle; is_running stays
\* false, and Stopped is on the event channel only when run() has returned,
\* as the last event.
C26_StopEndsWithCycle ==
    SelectSeq(applied, IsStop) # <<>> =>
        /\ ~is_running
        /\ SelectSeq(cycle_applied, IsStop) # <<>>
        /\ FromStop(applied) = FromStop(cycle_applied)
        /\ SelectSeq(result_tx, IsStopped) # <<>> =>
              /\ pc = "done"
              /\ IsStopped(Last(result_tx))

\* run() has returned after it rendered a frame that was held in the Inbox
\* when Stop was applied
C26_Witness ==
    /\ pc = "done"
    /\ Len(applied) > 1
    /\ IsStop(applied[Len(applied) - 1])
    /\ Last(applied).kind = "RenderFrame"
    /\ Len(result_tx) > 1
    /\ result_tx[Len(result_tx) - 1].type = "FrameComplete"

(* ---------------- further properties of the control side --------------- *)

\* C27: the control side never sends on a dead command channel. Whatever
\* the interleaving of request_frame, resize and update_camera with the end
\* of the render thread, every send that is checked with unwrap finds the
\* receiver in place: none returns Err, so the control thread does not panic.
C27_NoSendFails == ~send_failed

\* the next event the control side will take is a ResizeComplete
AckNext ==
    /\ polled < Len(result_tx)
    /\ result_tx[polled + 1].type = "ResizeComplete"
    /\ ~backend.exited
    /\ ~send_failed

\* every command sent has been handled and every event sent has been taken
Settledness ==
    /\ render_rx = <<>>
    /\ inbox = EmptyInbox
    /\ ready = <<>>
    /\ pc \in {"test", "recv"}
    /\ polled = Len(result_tx)

\* C28: no resize acknowledgement is lost. A ResizeComplete finds the
\* surface Resizing, where apply_resize configures it at once, or Acquired,
\* where the next present does; it is never ignored. So once the events of
\* the last resize are processed the surface has the configuration that was
\* asked for last.
C28_NoAckLost ==
    /\ AckNext => backend.surface.state \in {"Resizing", "Acquired"}
    /\ (Settledness /\ last_resize # None /\ ~backend.dropped) =>
          /\ backend.surface.config = last_resize[1]
          /\ backend.surface.pending_resize = None

IsFrame(c) == c.kind = "RenderFrame"

IsFrameComplete(e) == e.type = "FrameComplete"

\* the RenderFrame commands sent whose FrameComplete the control side has
\* not taken yet
Outstanding ==
    Len(SelectSeq(received \o render_rx, IsFrame))
       - Len(SelectSeq(SubSeq(result_tx, 1, polled), IsFrameComplete))

\* no RenderFrame that the render loop received was dropped: each one is
\* applied, held in the Inbox or waiting in the ready list
FramesKept ==
    Len(SelectSeq(received, IsFrame)) =
       Len(SelectSeq(applied, IsFrame)) + Len(inbox.frame)
          + Len(SelectSeq(ready, IsFrame))

InFlight(id) ==
    LET worker == web_workers[id + 1]
    IN  {worker.mailbox[i] : i \in 1..Len(worker.mailbox)}
        \cup worker.running
        \cup {worker.outbox[i].result_of :
                 i \in {j \in 1..Len(worker.outbox) :
                           worker.outbox[j].as_string = None}}

\* C30: a task is assigned only to a worker that is Ready and has no entry
\* in submissions, so no worker has two tasks in flight; the pool never has
\* more workers than its capacity; the queue holds a task only while no
\* worker is Ready; and every result reaches on_complete of the task that
\* was assigned to the worker that posted it.
C30_TaskMatching ==
    /\ last_assign # None =>
          /\ last_assign[1].state = "Ready"
          /\ last_assign[1].replaced = None
    /\ \A id \in 0..(Len(web_workers) - 1) : Cardinality(InFlight(id)) <= 1
    /\ Len(worker_pool.workers) <= worker_pool.capacity
    /\ worker_pool.queue # <<>> =>
          \A i \in 1..Len(worker_pool.workers) :
              worker_pool.workers[i] # "Ready"
    /\ \A i \in 1..Len(completed) :
          completed[i].task = completed[i].result_of

\* a pool at its capacity of two workers handed two results of one worker
\* to on_complete, the third task is assigned and the queue is empty
C30_Witness ==
    /\ Len(completed) >= 2
    /\ completed[1].worker_id = completed[2].worker_id
    /\ worker_pool.capacity = 2
    /\ Len(worker_pool.workers) = 2
    /\ last_assign # None
    /\ last_assign[1].task = 3
    /\ worker_pool.queue = <<>>

====
